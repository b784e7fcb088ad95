------------------------------- MODULE Lister -------------------------------
(***************************************************************************)
(* What the JetStream API answers in pages: ListerImpl of jetstream/src/   *)
(* jslister.ts behind the lists of streams, consumers, KVs and object      *)
(* stores, and the subjects of a stream, which info() of StreamAPIImpl     *)
(* collects.  The server's list is sorted by name, and may change between  *)
(* two pages.  A name is its place in that order.                          *)
(***************************************************************************)
EXTENDS Integers, Sequences, FiniteSets, FiniteSetsExt, SequencesExt

CONSTANTS
  Lists,      \* a subset of {"streams", "buckets", "subjects"}
  Names,      \* the names the server may have, numbers
  Buckets,    \* the names of KVs, for the filter of Kvm.list()
  Limit,      \* names in a page
  MaxChanges  \* bound: names added or removed while listing

ListerAssumption ==
  /\ Lists \subseteq {"streams", "buckets", "subjects"}
  /\ Names \subseteq Nat /\ Buckets \subseteq Names /\ Limit \in Nat \ {0} /\ MaxChanges \in Nat

VARIABLES
  list,     \* what is listed
  names,    \* the names the server has
  offset, total,   \* of ListerImpl; total is -1 before the first page
  have,     \* of info(): the subjects received
  listed,   \* what the listing gave, page by page
  listing,  \* "on", "ended" or "threw"
  stayed,   \* the names that were there all the time
  changes, removals

vars == <<list, names, offset, total, have, listed, listing, stayed, changes, removals>>

Init ==
  /\ list \in Lists
  /\ names \in SUBSET Names \ {{}}
  /\ offset = 0 /\ total = -1 /\ have = 0
  /\ listed = <<>> /\ listing = "on" /\ stayed = names /\ changes = 0 /\ removals = 0

----------------------------------------------------------------------------
\* The server: a page of the list
Sorted == SelectSeq([n \in 1..Max(Names) |-> n], LAMBDA n : n \in names)
PageAt(from) == SubSeq(Sorted, from + 1, Min({from + Limit, Len(Sorted)}))

Change ==
  /\ changes < MaxChanges /\ changes' = changes + 1 /\ listing = "on"
  /\ \E n \in Names :
       \/ n \notin names /\ names' = names \cup {n} /\ UNCHANGED <<stayed, removals>>
       \/ /\ n \in names /\ names' = names \ {n} /\ stayed' = stayed \ {n}
          /\ removals' = removals + 1
  /\ UNCHANGED <<list, offset, total, have, listed, listing>>

----------------------------------------------------------------------------
\* The offset counts the names of the answer,
CountResponse(page) == Len(page)

\* and the filter is applied after that.
Filtered(page) == SelectSeq(page, LAMBDA n : list = "buckets" => n \in Buckets)

\* next(), by the iterator, which ends with the first page that is empty
NextPage ==
  /\ list # "subjects" /\ listing = "on"
  /\ IF total >= 0 /\ offset >= total
     THEN listing' = "ended" /\ UNCHANGED <<offset, total, listed>>
     ELSE LET page == PageAt(offset)
          IN /\ total' = Cardinality(names)
             /\ offset' = offset + CountResponse(page)
             /\ listed' = listed \o Filtered(page)
             /\ listing' = IF Filtered(page) = <<>> THEN "ended" ELSE "on"
  /\ UNCHANGED <<list, names, have, stayed, changes, removals>>

\* Faulty: the total is the one of the first answer.
TotalKept == IF total = -1 THEN Cardinality(names) ELSE total

\* info(): total could change, so it is read again from each answer.
Total == Cardinality(names)

\* A page of info(): the offset counts pages.  There is another one if the subjects received
\* are fewer than the total, and the page was full.  An answer without subjects throws.
NextSubjects ==
  /\ list = "subjects" /\ listing = "on"
  /\ LET page == PageAt(offset)
     IN IF total >= 0 /\ page = <<>>
        THEN listing' = "threw" /\ UNCHANGED <<offset, total, have, listed>>
        ELSE /\ total' = Total /\ have' = have + Len(page)
             /\ offset' = offset + Limit
             /\ listed' = listed \o page
             /\ listing' = IF total' > have' /\ (total = -1 \/ Len(page) = Limit)
                           THEN "on" ELSE "ended"
  /\ UNCHANGED <<list, names, stayed, changes, removals>>

\* A request fails: next() throws, and gives nothing any more.
Throw ==
  /\ listing = "on" /\ listing' = "threw"
  /\ UNCHANGED <<list, names, offset, total, have, listed, stayed, changes, removals>>

Next == Change \/ NextPage \/ NextSubjects \/ Throw

Spec == Init /\ [][Next]_vars

----------------------------------------------------------------------------
\* A listing of streams or of subjects that ends gave every name that was there all the
\* time, but for one for each that was removed meanwhile, which may move a name to a page
\* read before; names that are added only move the others to the pages after.
ListsAll ==
  (listing = "ended" /\ list # "buckets") =>
    Cardinality(stayed \ Range(listed)) <= removals
=============================================================================
