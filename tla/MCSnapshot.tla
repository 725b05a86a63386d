----------------------------- MODULE MCSnapshot -----------------------------
(***************************************************************************)
(* Small instances of Snapshot for TLC: of every type the value a default  *)
(* constructor makes, one where every member is set, and each of them with *)
(* every other code in one member.                                         *)
(***************************************************************************)
EXTENDS Snapshot

Bare(struct) ==
    [m \in DOMAIN struct |-> IF struct[m].init \in struct[m].codes THEN struct[m].init ELSE CHOOSE c \in struct[m].codes : TRUE]

Full(struct) ==
    [m \in DOMAIN struct |->
       IF 1 \in struct[m].codes THEN 1 ELSE CHOOSE c \in struct[m].codes : c \notin {Unset, Empty, Blank, Bytes}]

Deviating(struct) ==
    UNION {UNION {{[base EXCEPT ![m] = c] : c \in struct[m].codes} : m \in DOMAIN struct} : base \in {Bare(struct), Full(struct)}}

OneDeviation == [t \in DOMAIN Schemas |-> Deviating(Schemas[t].type)]
=============================================================================
