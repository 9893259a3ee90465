--------------------------- MODULE AnnounceLedger ---------------------------
(***************************************************************************)
(* What the crawler promises its caller, with no queue, thread or timer:   *)
(* every announce is either skipped or accepted, an accepted one is fetched*)
(* at most Cap at a time, and it is settled at most once -- discovered, or *)
(* dropped for good.                                                       *)
(***************************************************************************)
EXTENDS Naturals, FiniteSets

CONSTANTS Announce,  \* the announces the DHT may deliver
          Cap        \* how many metadata fetches may run at once

VARIABLES ledger,    \* the fate of each announce
          fetching   \* the announces whose metadata is being fetched

lvars == <<ledger, fetching>>

Fate == {"unheard", "posted", "skipped", "pending", "discovered", "dropped"}

LInit == /\ ledger = [a \in Announce |-> "unheard"]
         /\ fetching = {}

Become(a, old, new) == /\ ledger[a] = old
                       /\ ledger' = [ledger EXCEPT ![a] = new]
                       /\ UNCHANGED fetching

Hear(a) == Become(a, "unheard", "posted")
Skip(a) == Become(a, "posted", "skipped")
Accept(a) == Become(a, "posted", "pending")

BeginFetch(a) == /\ ledger[a] = "pending"
                 /\ a \notin fetching
                 /\ Cardinality(fetching) < Cap
                 /\ fetching' = fetching \cup {a}
                 /\ UNCHANGED ledger

EndFetch(a) == /\ a \in fetching
               /\ fetching' = fetching \ {a}
               /\ UNCHANGED ledger

\* Settled only once no fetch of it is running.
Discover(a) == a \notin fetching /\ Become(a, "pending", "discovered")
Drop(a) == a \notin fetching /\ Become(a, "pending", "dropped")

LNext == \E a \in Announce :
            \/ Hear(a) \/ Skip(a) \/ Accept(a)
            \/ BeginFetch(a) \/ EndFetch(a)
            \/ Discover(a) \/ Drop(a)

LSpec == LInit /\ [][LNext]_lvars
=============================================================================
