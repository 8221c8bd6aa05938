SPECIFICATION Spec
CONSTANTS
    e1 = e1
    e2 = e2
    x1 = x1
    x2 = x2
    x3 = x3
    f1 = f1
    s1 = s1
    r1 = r1
    r2 = r2
    k1 = k1
    k2 = k2
    i1 = i1
    t1 = t1
    Eggs = {e1, e2}
    Vars = {x1, x2, x3}
    Files = {f1}
    Parsers = {"json", "csv"}
    Scripts = {t1}
    Specs <- SomeSpecs
    Docs <- SomeDocs
    MaxBegun = 4
    None = None
    Servers = {s1}
    Keys = {k1, k2}
    nothing = nothing
    seven = seven
    five = five
    word = word
    Values = {nothing, seven, five, word}
    Facts <- FourFacts
    Empty = nothing
    Owns <- SomeOwns
    Bodies <- SomeBodies
    Images = {i1}
    Requests = {r1, r2}
    Meaning <- Meanings
SYMMETRY Symmetry
INVARIANTS Sound ImportInOrder ExportWhole NoLostUpdate EnvValid
CHECK_DEADLOCK FALSE
