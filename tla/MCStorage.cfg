CONSTANTS
    TA = {t1, t2}
    Id = {a, b}
    Flags <- MCFlags
    MaxFiles = 2
    None = None
SPECIFICATION Spec
SYMMETRY Symm
INVARIANTS RefsExact DirectoryUnique SharingRules 
PROPERTIES ImplementsStore ExclusiveNotTorn
