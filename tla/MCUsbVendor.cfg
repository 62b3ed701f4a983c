SPECIFICATION Spec
CONSTANTS
    Requests <- MCVendor
    None = None
    IdProduct = 4289
    OvfMax = 2
    MaxBulk <- MCOne
    MaxResets = 1
CHECK_DEADLOCK FALSE
INVARIANT VendorServed
