SPECIFICATION Spec
CONSTANTS
    Request = {q1, q2}
    Child = {c1}
    Repo = {r1, r2}
    Inode = {f1, f2, f3}
    None = None
    Crashes = TRUE
SYMMETRY Symmetric
INVARIANT ExistsMeansConcurrent
