CONSTANTS
    sha1 = sha1
    sha256 = sha256
    sha512 = sha512
    Algs = {sha1, sha256, sha512}
    NoAlg = NoAlg
    MaxAccept = 3
SPECIFICATION Spec
INVARIANTS TypeOK ChosenIsFirstMatch
