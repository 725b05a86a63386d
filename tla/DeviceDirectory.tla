-------------------------- MODULE DeviceDirectory --------------------------
(***************************************************************************)
(* One of the directories of devices, read while devices come, go and take *)
(* each other's names: network interfaces, block devices, PCI functions or *)
(* NUMA nodes.  Each entry is looked at, then file by file; what has left  *)
(* a usable record is in the model.  PCI functions are listed by lspci as  *)
(* well, before the directory is opened.                                   *)
(***************************************************************************)
EXTENDS Integers, Enumeration

CONSTANT None                  \* nothing of that name, or no record

VARIABLES
    requested,     \* the domains of the call
    census,        \* the directory
    bearer,        \* name -> the nature of the device that bears it, or None
    budget,        \* how many more changes of the hardware there will be
    at,            \* what is read next
    listing,       \* entries of the enumeration, None before it
    place,         \* the entry that is read
    tool,          \* names of lspci, {} without it
    files,         \* name -> what its attribute files say it is, None without one
    exists,        \* name -> file -> result of path_exists, None without one
    bore           \* name -> natures since the directory was opened, None for absence

bus == <<bearer, budget, bore>>

Names == DOMAIN bearer
Natures == [NetworkInterfaces |-> {"physical", "virtual", "bridge", "bond"}, BlockDevices |-> {"disk", "loop"},
            PciDevices |-> {"function"}, NumaNodes |-> {"with CPUs", "memory only"}]

\* What is read of an entry, in order; the first step is to see that it is a directory.
Steps == [NetworkInterfaces |-> <<"check", "files", "device", "bridge", "bonding">>,
          BlockDevices |-> <<"check", "files", "loop">>, PciDevices |-> <<"files">>, NumaNodes |-> <<"check", "files">>]
\* The domains whose calls read the directory, and the one whose report lists it.
DomainsOf == [NetworkInterfaces |-> {"Network"}, BlockDevices |-> {"Storage", "StorageHealth"},
              PciDevices |-> {"Pci", "Network", "Storage", "StorageHealth"}, NumaNodes |-> {"Cpu", "Memory"}]
ReportedIn == [NetworkInterfaces |-> "Network", BlockDevices |-> "Storage", PciDevices |-> "Pci", NumaNodes |-> "Cpu"]

Start ==
    /\ at = IF requested \cap DomainsOf[census] = {} THEN "end"
             ELSE IF census = "PciDevices" /\ requested \cap {"Pci", "Network", "Storage"} # {} THEN "lspci" ELSE "open"
    /\ listing = None /\ place = 1 /\ tool = {}
    /\ files = [n \in Names |-> None]
    /\ exists = [n \in Names |-> [f \in {"device", "bridge", "bonding", "loop"} |-> None]]
    /\ bore = [n \in Names |-> {bearer[n]}]

Reading == at # "end"

\* A device leaves a name, or one comes and takes it, or takes another name.
Become(now) ==
    /\ Reading /\ budget > 0
    /\ now # bearer
    /\ bearer' = now /\ budget' = budget - 1
    /\ bore' = [n \in Names |-> bore[n] \cup {now[n]}]
    /\ UNCHANGED <<requested, census, at, listing, place, tool, files, exists>>

Leave == \E n \in Names : bearer[n] # None /\ Become([bearer EXCEPT ![n] = None])
Arrive == \E n \in Names, nature \in Natures[census] : bearer[n] = None /\ Become([bearer EXCEPT ![n] = nature])
Rename ==
    /\ census = "NetworkInterfaces"
    /\ \E n, m \in Names :
         /\ bearer[n] # None /\ bearer[m] = None
         /\ Become([bearer EXCEPT ![n] = None, ![m] = bearer[n]])

Hotplug == Leave \/ Arrive \/ Rename

\* lspci fails, or prints what is there.
RunLspci ==
    /\ at = "lspci"
    /\ tool' \in {{}, {n \in Names : bearer[n] # None}}
    /\ at' = "open"
    /\ UNCHANGED <<requested, census, bus, listing, place, files, exists>>

OpenDirectory ==
    /\ at = "open"
    /\ at' = "list"
    /\ bore' = [n \in Names |-> {bearer[n]}]
    /\ UNCHANGED <<requested, census, bearer, budget, listing, place, tool, files, exists>>

Stayed == {n \in Names : None \notin bore[n]}
Occurred == {n \in Names : bore[n] # {None}}

ListDirectory ==
    /\ at = "list"
    /\ listing' \in Listings(Stayed, Occurred)
    /\ at' = IF listing'.names = <<>> THEN "end" ELSE Head(Steps[census])
    /\ UNCHANGED <<requested, census, bus, place, tool, files, exists>>

\* The loop body goes on with the next file, or with the first of the next entry.
AfterEntry ==
    IF place = Len(listing.names) THEN at' = "end" /\ UNCHANGED place
    ELSE at' = Head(Steps[census]) /\ place' = place + 1
AfterStep ==
    LET i == CHOOSE j \in DOMAIN Steps[census] : Steps[census][j] = at
    IN  IF i = Len(Steps[census]) THEN AfterEntry ELSE at' = Steps[census][i + 1] /\ UNCHANGED place

Entry == listing.names[place]

\* directory_entry_is_directory: what has gone is passed over.
Check ==
    /\ at = "check"
    /\ IF bearer[Entry] = None THEN AfterEntry ELSE at' = "files" /\ UNCHANGED place
    /\ UNCHANGED <<requested, census, bus, listing, tool, files, exists>>

\* The attribute files of what bears the name now, readable or not.
ReadFiles ==
    /\ at = "files"
    /\ \E seen \in {bearer[Entry], None} : files' = [files EXCEPT ![Entry] = seen]
    /\ AfterStep
    /\ UNCHANGED <<requested, census, bus, listing, tool, exists>>

Shows(nature, file) ==
    <<nature, file>> \in {<<"physical", "device">>, <<"bridge", "bridge">>, <<"bond", "bonding">>, <<"loop", "loop">>}

\* Mutant of PathExists: a file that cannot be looked at is taken for absent.
PathExistsOrFails(name, file) == {Shows(bearer[name], file), FALSE}

\* path_exists: absence is false, also of the directory; inability is unknown.
PathExists(name, file) == {Shows(bearer[name], file), None}

LookFor ==
    /\ at \in {"device", "bridge", "bonding", "loop"}
    /\ \E result \in PathExists(Entry, at) : exists' = [exists EXCEPT ![Entry][at] = result]
    /\ AfterStep
    /\ UNCHANGED <<requested, census, bus, listing, tool, files>>

Read == RunLspci \/ OpenDirectory \/ ListDirectory \/ Check \/ ReadFiles \/ LookFor
-----------------------------------------------------------------------------
\* NetworkInterface::interface_kind, None unless all three files could be looked at.
Kind(n) ==
    LET e == exists[n]
    IN  IF None \in {e.device, e.bridge, e.bonding} THEN None
        ELSE IF e.bridge THEN "bridge" ELSE IF e.bonding THEN "bond" ELSE IF e.device THEN "physical" ELSE "virtual"

\* What the parser of the domain makes entries of: any record of an interface or a block
\* device, "kind" and "loop_present" included; PCI functions of either source; a node by
\* its CPUs.
Interfaces == {n \in Names : files[n] # None \/ Kind(n) # None}
BlockDevices == {n \in Names : files[n] # None \/ exists[n].loop # None}
PciFunctions == {n \in Names : files[n] # None} \cup (IF listing = None THEN {} ELSE tool)
NumaNodes == {n \in Names : files[n] = "with CPUs"}

Members ==
    CASE census = "NetworkInterfaces" -> Interfaces
      [] census = "BlockDevices" -> BlockDevices
      [] census = "PciDevices" -> PciFunctions
      [] census = "NumaNodes" -> NumaNodes

Report == Completeness(StatusOf(listing), listing.names, Members)
-----------------------------------------------------------------------------
\* A list that is called complete has every device that was there all the time, and no
\* name that nothing bore, whatever came, went and was renamed between two reads.
CompleteIsAll ==
    ~Reading /\ listing # None /\ ReportedIn[census] \in requested /\ Report = "Complete" =>
        Stayed \subseteq Members /\ Members \subseteq Occurred

\* A known kind of an interface is the kind of one that bore its name; only one that was
\* gone while it was read may be called virtual instead.
KindRight ==
    ~Reading /\ census = "NetworkInterfaces" =>
        \A n \in Names : Kind(n) # None => Kind(n) \in bore[n] \/ (Kind(n) = "virtual" /\ None \in bore[n])
=============================================================================
