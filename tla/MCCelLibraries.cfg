SPECIFICATION Spec
CONSTANTS
    Bodies <- Incoming
    Tokens <- Signed
    Defaults = {default}
    None = None
    Error = Error
INVARIANTS RequestFitsBody DecodesAlike
