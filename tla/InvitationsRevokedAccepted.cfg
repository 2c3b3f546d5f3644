\* A revocation that found the invitation before it was accepted.
SPECIFICATION Spec
CONSTANTS Requests = {r1, r2}
SYMMETRY Symmetry
INVARIANT RevokeSparesAccepted
