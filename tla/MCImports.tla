----------------------------- MODULE MCImports -----------------------------
(* A small instance of Imports for TLC: statements that overlap in a bank      *)
(* entry, in payments alike but for their reference, in a reused reference,    *)
(* and in an account number.                                                   *)
EXTENDS Imports

CONSTANTS i1, i2, i3, i4

Entry(reference, fingerprint) == [reference |-> reference, fingerprint |-> fingerprint]

StatementDef ==
    [i \in Import |->
        CASE i = i1 -> <<Entry("x", "f"), Entry("y", "g")>>
          [] i = i2 -> <<Entry("z", "g"), Entry("w", "g")>>
          [] i = i3 -> <<Entry("x", "h")>>
          [] i = i4 -> <<Entry("x", "f")>>]

MaskDef == [i \in Import |-> CASE i = i3 -> "-" [] i = i4 -> "5678" [] OTHER -> "1234"]
=============================================================================
