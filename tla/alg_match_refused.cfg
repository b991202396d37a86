\* Scenarios 1 and 2 of the specification: every accepted list up to three
\* algorithms against every set the agent may support.
CONSTANTS
    sha1 = sha1
    sha256 = sha256
    sha512 = sha512
    Algs = {sha1, sha256, sha512}
    NoAlg = NoAlg
    MaxAccept = 3
SPECIFICATION Spec
INVARIANT RefusedIffNoMatch
