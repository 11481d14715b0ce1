----------------------------- MODULE SectorStore -----------------------------
(***************************************************************************)
(* What the buffer cache and the disk driver promise together: a sector is *)
(* held by one process at a time, which sees what was written to it last,  *)
(* and a write of a sector takes place as a whole.                         *)
(***************************************************************************)
CONSTANTS Procs, Sectors, Values, None

VARIABLES store, asked, holder, seen

vars == <<store, asked, holder, seen>>

Init == /\ store \in [Sectors -> Values]
        /\ asked = [p \in Procs |-> None]
        /\ holder = [s \in Sectors |-> None]
        /\ seen = [s \in Sectors |-> None]

Ask(p, s) == /\ asked[p] = None
             /\ asked' = [asked EXCEPT ![p] = s]
             /\ UNCHANGED <<store, holder, seen>>

\* A process gets the sector that it has asked for.
Take(p, s) == /\ asked[p] = s /\ holder[s] = None
              /\ asked' = [asked EXCEPT ![p] = None]
              /\ holder' = [holder EXCEPT ![s] = p]
              /\ UNCHANGED <<store, seen>>

See(s) == /\ holder[s] # None
          /\ seen' = [seen EXCEPT ![s] = store[s]]
          /\ UNCHANGED <<store, asked, holder>>

\* bget of a sector that is in the cache sees it at once.
TakeAndSee(p, s) == /\ asked[p] = s /\ holder[s] = None
                    /\ asked' = [asked EXCEPT ![p] = None]
                    /\ holder' = [holder EXCEPT ![s] = p]
                    /\ seen' = [seen EXCEPT ![s] = store[s]]
                    /\ UNCHANGED store

Change(s) == /\ holder[s] # None /\ seen[s] # None
             /\ \E v \in Values : seen' = [seen EXCEPT ![s] = v]
             /\ UNCHANGED <<store, asked, holder>>

Write(s) == /\ holder[s] # None /\ seen[s] # None
            /\ store' = [store EXCEPT ![s] = seen[s]]
            /\ UNCHANGED <<asked, holder, seen>>

\* Only what has been written is given back.
Give(s) == /\ holder[s] # None /\ seen[s] = store[s]
           /\ holder' = [holder EXCEPT ![s] = None]
           /\ seen' = [seen EXCEPT ![s] = None]
           /\ UNCHANGED <<store, asked>>

Next == \E s \in Sectors :
          \/ \E p \in Procs : Ask(p, s) \/ Take(p, s) \/ TakeAndSee(p, s)
          \/ See(s) \/ Change(s) \/ Write(s) \/ Give(s)

Spec == Init /\ [][Next]_vars

=============================================================================
