SPECIFICATION Spec
CONSTANTS
    root = root
    disk = disk
    remote = remote
    trigger = trigger
    map = map
    rootfs = rootfs
    data = data
    export = export
    direct = direct
    indirect = indirect
    None = None
    Mounts <- SomeMounts
    Root = root
    Depth = 2
    FsOf <- Filesystem
    KindOf <- Kind
    Policies <- AnyPolicy
    MaxChanges = 2
INVARIANTS
    RightFilesystem
    NoLookupInAutofs
    ChangedOrCovered
