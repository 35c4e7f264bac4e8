------------------------- MODULE StorageRefinement -------------------------
(***************************************************************************)
(* The files of Storage as the lines of Store.                             *)
(***************************************************************************)
EXTENDS Storage

VisibleLines == {a \in Batches \X Days : HasLine(file[a[2]], a[1])}

Contract == INSTANCE Store WITH lines <- VisibleLines, accepted <- acked,
                                durable <- safe, refused <- nacked

\* Every step of append_at, of a rotation, of a restart or of a power loss is a
\* step of Store or invisible to senders and readers: no undo, tail recovery or
\* failed rotation ever takes away or brings back a whole line.
ImplementsStore == Contract!Spec
=============================================================================
