------------------------------ MODULE EventLog ------------------------------
(***************************************************************************)
(* The event log of an agent: EventManager (runtime/event_manager.py) over *)
(* InMemoryBackend (runtime/event_backend.py) or SQLiteEventBackend        *)
(* (storage/sqlite.py).                                                    *)
(*                                                                         *)
(* An event gets the next tag, "5" (here <<5>>), and is listed in the view *)
(* the model sees.  collapse() archives a range of the view and lists one  *)
(* Summary, tagged "2..40" (here <<2, 40>>), in its place.                 *)
(*                                                                         *)
(* The view is a list in memory and the table active_tags in SQLite.  Both *)
(* are the function pos from listed tags to positions; they differ when a  *)
(* tag is unlisted, which renumbers the list and leaves a gap in the table.*)
(***************************************************************************)
EXTENDS Integers, Sequences, FiniteSets, FiniteSetsExt

CONSTANTS
  Backends,      \* the backends in use: "memory", "sqlite"
  MaxEvents,     \* bound of the model: events recorded, summaries included
  MaxDropped,    \* bound of the model: remove() is not called with this many dropped
  Shared,        \* backends that another thread or manager writes to as well
  MaxShared,     \* bound of the model: it does so until this many events are recorded
  Pruned,        \* backends on which remove() and clear() are used
  Faulty         \* backends whose process may die and whose statements may fail

ASSUME EventLogAssumption ==
  /\ Backends \subseteq {"memory", "sqlite"}
  /\ MaxEvents \in Nat /\ MaxDropped \in Nat /\ MaxShared \in Nat
  /\ Shared \subseteq Backends /\ Pruned \subseteq Backends
  /\ Faulty \subseteq Backends \ {"memory"}

VARIABLES
  backend,     \* the backend this manager was given
  events,      \* stored events: tag -> [id, kids], kids are children_tags
  archived,    \* tags whose event has status ARCHIVED
  pos,         \* the view: listed tag -> position
  next_tag,    \* _next_tag_num
  pc, todo, gone, place,   \* the collapse() under way
  other,       \* the tag that another thread holds and has not stored; 0: none
  ids,         \* history: events recorded so far
  given,       \* history: number -> id of the event it was given to
  dropped      \* history: numbers taken out of the view or the log by remove()

store == <<events, archived, pos, next_tag>>
call  == <<pc, todo, gone, place>>
hist  == <<ids, given, dropped>>
vars  == <<backend, store, call, other, hist>>

Nums  == 1..MaxEvents
Tags  == {<<n>> : n \in Nums} \cup {<<m, n>> : m \in Nums, n \in Nums}

\* _parse_tag_start, _parse_tag_end
Start(t) == t[1]
End(t)   == t[Len(t)]
Span(t)  == Start(t)..End(t)

Listed == DOMAIN pos
Stored == DOMAIN events

Extend(f, x, y)  == [z \in DOMAIN f \cup {x} |-> IF z = x THEN y ELSE f[z]]
Without(f, S)    == [z \in DOMAIN f \ S |-> f[z]]
Empty            == [z \in {} |-> 0]

----------------------------------------------------------------------------
(***************************************************************************)
(* The view.                                                               *)
(***************************************************************************)

\* max_tag_num
LastNumber(ts) == IF ts = {} THEN 0 ELSE Max({End(t) : t \in ts})

\* store() lists the tag after all others.
AppendTag(t) == Extend(pos, t, IF Listed = {} THEN 0 ELSE 1 + Max({pos[u] : u \in Listed}))

\* remove_active_tag and remove
Unlist(S) ==
  IF backend = "sqlite" THEN Without(pos, S)
  ELSE [t \in Listed \ S |-> Cardinality({u \in Listed \ S : pos[u] < pos[t]})]

\* insert_active_tag: everything from the index on moves up.
InsertTag(t, index) ==
  [u \in Listed \cup {t} |-> IF u = t THEN index
                             ELSE IF pos[u] >= index THEN pos[u] + 1 ELSE pos[u]]

\* Mutant: a summary is always listed last.
InsertIndexLast(first) == Cardinality(Listed)

\* The insertion point of a summary, in the view without the collapsed tags:
\* the index of the first tag that starts after the first collapsed one.
InsertIndex(first) ==
  LET later == {t \in Listed : Start(t) > first}
      at    == CHOOSE t \in later : \A u \in later : pos[t] <= pos[u]
  IN  IF later = {} THEN Cardinality(Listed)
      ELSE Cardinality({t \in Listed : pos[t] < pos[at]})

----------------------------------------------------------------------------
(***************************************************************************)
(* add                                                                     *)
(***************************************************************************)

\* store(): SQLite refuses a tag that exists, a dict replaces its event.
MayStore(t) == backend = "sqlite" => t \notin Stored

Store(t, kids) ==
  /\ MayStore(t)
  /\ events' = Extend(events, t, [id |-> ids + 1, kids |-> kids])
  /\ archived' = archived \ {t}
  /\ pos' = AppendTag(t)
  /\ next_tag' = Max({next_tag, End(t) + 1})
  /\ ids' = ids + 1

\* Bound of the model.
Room == ids < MaxEvents /\ next_tag <= MaxEvents

Recorded(n) ==
  /\ Store(<<n>>, {})
  /\ given' = Extend(given, n, ids + 1)
  /\ dropped' = dropped \ {n}

Add ==
  /\ pc = "idle" /\ Room
  /\ Recorded(next_tag)
  /\ UNCHANGED <<backend, call, other>>

\* The same by another thread or manager on the same backend, which takes its
\* tag and stores its event in two steps.
OtherAllocates ==
  /\ backend \in Shared /\ other = 0 /\ ids < MaxShared /\ Room
  /\ other' = next_tag
  /\ next_tag' = next_tag + 1
  /\ UNCHANGED <<backend, events, archived, pos, call, hist>>

OtherStores ==
  /\ other # 0 /\ ids < MaxEvents
  /\ Recorded(other)
  /\ other' = 0
  /\ UNCHANGED <<backend, call>>

----------------------------------------------------------------------------
(***************************************************************************)
(* collapse                                                                *)
(***************************************************************************)

Overlapping(s, e) == {t \in Listed : Start(t) <= e /\ End(t) >= s}

\* The range is looked up; an empty one raises and changes nothing.
Collapse(s, e) ==
  /\ pc = "idle" /\ ids < MaxEvents
  /\ Overlapping(s, e) # {}
  /\ gone' = Overlapping(s, e) /\ todo' = Overlapping(s, e)
  /\ place' = Start(CHOOSE t \in gone' : \A u \in gone' : pos[t] <= pos[u])
  /\ pc' = "archive"
  /\ UNCHANGED <<backend, store, other, hist>>

\* For each tag, in the order of the view: set_status, then remove_active_tag.
Archive ==
  /\ pc = "archive"
  /\ \E t \in todo :
       /\ \A u \in todo : pos[t] <= pos[u]
       /\ archived' = archived \cup {t}
  /\ pc' = "unlist"
  /\ UNCHANGED <<backend, events, pos, next_tag, todo, gone, place, other, hist>>

\* Mutant: remove() instead of remove_active_tag().
CollapseUnlistDeletes ==
  /\ pc = "unlist"
  /\ \E t \in todo :
       /\ \A u \in todo : pos[t] <= pos[u]
       /\ pos' = Unlist({t})
       /\ events' = Without(events, {t})
       /\ todo' = todo \ {t}
       /\ pc' = IF todo = {t} THEN "index" ELSE "archive"
  /\ UNCHANGED <<backend, archived, next_tag, gone, place, other, hist>>

CollapseUnlist ==
  /\ pc = "unlist"
  /\ \E t \in todo :
       /\ \A u \in todo : pos[t] <= pos[u]
       /\ pos' = Unlist({t})
       /\ todo' = todo \ {t}
       /\ pc' = IF todo = {t} THEN "index" ELSE "archive"
  /\ UNCHANGED <<backend, events, archived, next_tag, gone, place, other, hist>>

\* The insertion point is read before the summary is stored.
Index ==
  /\ pc = "index"
  /\ place' = InsertIndex(place)
  /\ pc' = "store"
  /\ UNCHANGED <<backend, store, todo, gone, other, hist>>

SummaryTag == <<Min({Start(t) : t \in gone}), Max({End(t) : t \in gone})>>

StoreSummary ==
  /\ pc = "store"
  /\ Store(SummaryTag, gone)
  /\ pc' = "move"
  /\ UNCHANGED <<backend, todo, gone, place, other, given, dropped>>

\* SQLite: a range that is collapsed again gets a tag that exists.
StoreRefused ==
  /\ pc = "store" /\ ~MayStore(SummaryTag)
  /\ pc' = "idle" /\ gone' = {} /\ place' = 0
  /\ UNCHANGED <<backend, store, todo, other, hist>>

\* The summary is taken off the end of the view and put in place.
Move ==
  /\ pc = "move"
  /\ pos' = Unlist({SummaryTag})
  /\ pc' = "place"
  /\ UNCHANGED <<backend, events, archived, next_tag, todo, gone, place, other, hist>>

Place ==
  /\ pc = "place"
  /\ pos' = InsertTag(SummaryTag, place)
  /\ pc' = "idle" /\ gone' = {} /\ place' = 0
  /\ UNCHANGED <<backend, events, archived, next_tag, todo, other, hist>>

----------------------------------------------------------------------------
(***************************************************************************)
(* remove, clear, and what can go wrong.                                   *)
(***************************************************************************)

Remove(t) ==
  /\ backend \in Pruned /\ pc = "idle" /\ t \in Stored /\ Cardinality(dropped) < MaxDropped
  /\ events' = Without(events, {t})
  /\ archived' = archived \ {t}
  /\ pos' = Unlist({t})
  /\ dropped' = dropped \cup (IF t \in Listed THEN Span(t) ELSE IF Len(t) = 1 THEN {t[1]} ELSE {})
  /\ UNCHANGED <<backend, next_tag, call, other, ids, given>>

\* clear() is called on a manager that nobody else writes to.
Clear ==
  /\ backend \in Pruned /\ pc = "idle" /\ other = 0 /\ Stored # {}
  /\ events' = Empty /\ archived' = {} /\ pos' = Empty /\ next_tag' = 1
  /\ given' = Empty /\ dropped' = {}
  /\ UNCHANGED <<backend, call, other, ids>>

\* The process dies between two transactions and the session is resumed, or
\* a statement fails and its error leaves collapse().
Reopen ==
  /\ backend \in Faulty
  /\ next_tag' = LastNumber(Stored) + 1
  /\ other' = 0
  /\ pc' = "idle" /\ todo' = {} /\ gone' = {} /\ place' = 0
  /\ UNCHANGED <<backend, events, archived, pos, hist>>

StatementFails ==
  /\ backend \in Faulty /\ pc # "idle"
  /\ pc' = "idle" /\ todo' = {} /\ gone' = {} /\ place' = 0
  /\ UNCHANGED <<backend, store, other, hist>>

----------------------------------------------------------------------------
Init ==
  /\ backend \in Backends
  /\ events = Empty /\ archived = {} /\ pos = Empty /\ next_tag = 1
  /\ pc = "idle" /\ todo = {} /\ gone = {} /\ place = 0
  /\ other = 0
  /\ ids = 0 /\ given = Empty /\ dropped = {}

Next ==
  \/ Add \/ OtherAllocates \/ OtherStores
  \/ \E s, e \in Nums : Collapse(s, e)
  \/ Archive \/ CollapseUnlist \/ Index \/ StoreSummary \/ StoreRefused \/ Move \/ Place
  \/ \E t \in Stored : Remove(t)
  \/ Clear \/ Reopen \/ StatementFails

Spec == Init /\ [][Next]_vars

----------------------------------------------------------------------------
(***************************************************************************)
(* Properties                                                              *)
(***************************************************************************)

\* Every variable has its type, and the positions of a list are its indices.
TypeOK ==
  /\ backend \in Backends
  /\ Stored \subseteq Tags /\ \A t \in Stored : events[t] \in [id : 1..(MaxEvents + 1), kids : SUBSET Tags]
  /\ archived \subseteq Tags
  /\ Listed \subseteq Tags /\ pos \in [Listed -> Nat]
  /\ backend = "memory" => {pos[t] : t \in Listed} = 0..(Cardinality(Listed) - 1)
  /\ next_tag \in 1..(MaxEvents + 1) /\ other \in 0..MaxEvents
  /\ pc \in {"idle", "archive", "unlist", "index", "store", "move", "place"}
  /\ todo \subseteq gone /\ gone \subseteq Tags /\ place \in 0..(MaxEvents + 1)
  /\ ids \in 0..(MaxEvents + 1) /\ DOMAIN given \subseteq Nums /\ dropped \subseteq Nums

\* The view is chronological and its ranges are disjoint, whatever was
\* collapsed, nested, removed or cleared before (keys() feeds the prompt).
ViewOrdered ==
  pc = "idle" => \A t, u \in Listed : pos[t] < pos[u] => End(t) < Start(u)

\* In memory it is, also when the summarizers collapse ranges of it.  And on
\* both backends every recorded event that nobody removed is in the view,
\* itself or inside the range of a summary: collapse() replaces events, it
\* never hides one (a collapse that a crash or an error cuts short does).
ViewFaithful ==
  /\ backend = "memory" => ViewOrdered
  /\ pc = "idle" /\ backend \notin Faulty =>
       \A n \in DOMAIN given \ dropped : \E t \in Listed : n \in Span(t)

\* Stable access: the tag of an original event returns that event for good,
\* through summarization, nested summaries, crashes and resumed sessions; no
\* number is handed out again while the log still refers to it, and the view
\* lists no tag without an event.
StableTags ==
  /\ TypeOK
  /\ \A n \in DOMAIN given \ dropped : <<n>> \in Stored /\ events[<<n>>].id = given[n]
  /\ \A t \in Stored : End(t) < next_tag
  /\ other # 0 => <<other>> \notin Stored /\ other < next_tag
  /\ Listed \subseteq Stored

=============================================================================
