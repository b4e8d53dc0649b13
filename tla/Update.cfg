\* Two processes of one installation, both of which update, three releases.
SPECIFICATION Spec
CONSTANTS
    Procs = {p1, p2}
    Stagers = {p1, p2}
    MaxVersion = 3
    Broken = {2}
    Refusing = {3}
INVARIANTS AlwaysOneThatStarts InPlaceAsPromised NothingSilenced
SYMMETRY Symmetry
