---------------------------- MODULE MCDownloads ----------------------------
(* Small instances of Downloads. *)
EXTENDS Downloads

CONSTANT h1

NoFile == [h \in InfoHash |-> Nothing]

\* A finished torrent of which one file is deselected, kept for seeding.
Seeding == [completed |-> TRUE, paused |-> FALSE, removeOnDone |-> FALSE,
            bytes |-> Size, sized |-> TRUE, files |-> "some"]

SeedingOnly == {[NoFile EXCEPT ![h1] = Seeding]}

NeverUp == {FALSE}
=============================================================================
