--------------------------- MODULE MCActionConsent ---------------------------
(***************************************************************************)
(* A small instance of ActionConsent: two notes that may be deleted, one   *)
(* event that may be cancelled by voice only, one note that may be created *)
(* directly and one list to read.                                          *)
(***************************************************************************)
EXTENDS ActionConsent, TLC

CONSTANTS deleteA, deleteB, cancel, create, list, delete, agenda, notes, read

MCTools == {delete, agenda, notes, read}
MCKeys == {deleteA, deleteB, cancel, create, list}
MCToolOf == (deleteA :> delete) @@ (deleteB :> delete) @@ (cancel :> agenda)
              @@ (create :> notes) @@ (list :> read)
MCPolicy == (delete :> "confirm_later") @@ (agenda :> "confirm_later")
              @@ (notes :> "explicit_intent") @@ (read :> "read_only")

Symmetry == Permutations(CallIDs) \cup Permutations(Turns) \cup Permutations({deleteA, deleteB})

=============================================================================
