\* Every call of the instance is made once: the run may end.
CHECK_DEADLOCK FALSE
SPECIFICATION Spec
CONSTANTS
    Uploads = {u1}
    Mints = {m1}
    Nobody = Nobody
PROPERTY UploadReturns
