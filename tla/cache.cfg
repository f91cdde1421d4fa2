CONSTANTS
  Key = {i, j, k}
  small = small
  large = large
  full = full
  huge = huge
  Data = {small, large, full, huge}
  Size <- Bytes
  Cut = Cut
  Nothing = Nothing
  MaxBytes = 5
SYMMETRY Alike
SPECIFICATION Spec
INVARIANTS TypeOK IndexWithinLimit DiskWithinLimit
PROPERTIES NeverStale FreshIsServed
