------------------------------- MODULE Poller -------------------------------
(***************************************************************************)
(* internal/delivery/poller: a cursor into the API's list, advanced by     *)
(* drain cycles and kept in a state file.  A cycle lists pages of the      *)
(* messages not older than the cursor, emits the supported ones, and only  *)
(* at its end moves the cursor to one second past the newest message it    *)
(* saw.  Any page may fail, which abandons the cycle; what the API answers *)
(* as the next page's cursor is up to it when CursorFaults.                *)
(***************************************************************************)
EXTENDS Inbox, FiniteSets

CONSTANTS PageSize,     \* messages per page (Limit)
          MaxPages,     \* pages per cycle (maxPollPages)
          CursorFaults, \* may the API answer a wrong next-page cursor?
          MaxErrors     \* bound: list calls that fail

ASSUME PollerAssumption == /\ PageSize \in Nat \ {0}
                           /\ MaxPages \in Nat \ {0}
                           /\ CursorFaults \in BOOLEAN
                           /\ MaxErrors \in Nat

VARIABLES pc,           \* "start", "idle", "list", "page" or "finish"
          lastPoll,     \* the cursor: messages at or after it are listed
          file,         \* its copy on disk, Unreadable when absent or torn
          page, after,  \* page number and API cursor of the cycle's next page
          batch, next,  \* unread messages of the page, and the cursor it came with
          newest,       \* latest timestamp seen in the cycle, 0 when none
          errors,       \* list calls that have failed
          polled,       \* history: messages put on the channel by the poller
          floor         \* history: where the poller last started afresh

cycleVars == <<page, after, batch, next>>

pollerVars == <<pc, lastPoll, file, cycleVars, newest, errors, polled, floor>>

Unreadable == -1

PollerInit == /\ pc = "start"
              /\ lastPoll = 0
              /\ file = Unreadable
              /\ page = 0 /\ after = 0 /\ batch = {} /\ next = 0 /\ newest = 0
              /\ errors = 0
              /\ polled = {}
              /\ floor = 0

(* The locals of a cycle die with it.                                      *)
CycleOver == page' = 0 /\ after' = 0 /\ batch' = {} /\ next' = 0

(* os.WriteFile truncates, then writes: it may leave the new cursor, the   *)
(* old file, or an unreadable one.  Only a warning is logged either way.   *)
SaveState(t) == file' \in {t, file, Unreadable}

(* Run: resume at the saved cursor, or start from now.                     *)
Resume == /\ pc = "start"
          /\ file # Unreadable
          /\ lastPoll' = file
          /\ pc' = "idle"
          /\ UNCHANGED <<ch, file, cycleVars, newest, errors, polled, floor>>

StartAfresh == /\ pc = "start"
               /\ file = Unreadable
               /\ lastPoll' = clock
               /\ floor' = clock
               /\ SaveState(clock)
               /\ pc' = "idle"
               /\ UNCHANGED <<ch, cycleVars, newest, errors, polled>>

BeginCycle == /\ pc = "idle"
              /\ pc' = "list"
              /\ UNCHANGED <<ch, lastPoll, file, cycleVars, newest, errors, polled, floor>>

(* The API's list: what is not older than since and comes after the        *)
(* cursor, of which a page serves the oldest.                              *)
Listing(since, cursor) == {i \in Arrived : i > cursor /\ stamp[i] >= since}

Oldest(n, list) == {i \in list : Cardinality({j \in list : j < i}) < n}

(* The cursors the API may answer with a page: the page's youngest message *)
(* when there are more, none otherwise, and the wrong ones: back to the    *)
(* start of the cycle or of the page, or within the page (one that skips   *)
(* ahead is left out).  An empty page ends the cycle whatever cursor comes *)
(* with it: as good as none.                                               *)
RightCursor(list, served) ==
    IF served = list THEN {0} ELSE {i \in served : \A j \in served : j <= i}

WrongCursors(served) == IF CursorFaults THEN {0, after} \cup served ELSE {}

NextCursors(list, served) ==
    IF served = {} THEN {0} ELSE RightCursor(list, served) \cup WrongCursors(served)

ListPage == /\ pc = "list"
            /\ batch' = Oldest(PageSize, Listing(lastPoll, after))
            /\ next' \in NextCursors(Listing(lastPoll, after), batch')
            /\ pc' = "page"
            /\ UNCHANGED <<ch, lastPoll, file, page, after, newest, errors, polled, floor>>

(* A failed page abandons the cycle; the cursor stays where it was.        *)
ListFails == /\ pc = "list"
             /\ errors < MaxErrors
             /\ errors' = errors + 1
             /\ CycleOver
             /\ newest' = 0
             /\ pc' = "idle"
             /\ UNCHANGED <<ch, lastPoll, file, polled, floor>>

(* One message of the page, in list order: its time counts whatever its    *)
(* type.                                                                   *)
First(i) == i \in batch /\ \A j \in batch : i <= j

Latest(t) == newest' = IF t > newest THEN t ELSE newest

EmitMessage ==
    /\ pc = "page"
    /\ \E i \in batch \cap Supported :
          /\ First(i)
          /\ Put(i)
          /\ polled' = polled \cup {i}
          /\ Latest(stamp[i])
          /\ batch' = batch \ {i}
    /\ UNCHANGED <<pc, lastPoll, file, page, after, next, errors, floor>>

SkipUncounted ==
    /\ pc = "page"
    /\ \E i \in batch \ Supported : First(i) /\ batch' = batch \ {i}
    /\ UNCHANGED <<ch, pc, lastPoll, file, page, after, next, newest, errors, polled, floor>>

SkipMessage ==
    /\ pc = "page"
    /\ \E i \in batch \ Supported :
          /\ First(i)
          /\ Latest(stamp[i])
          /\ batch' = batch \ {i}
    /\ UNCHANGED <<ch, pc, lastPoll, file, page, after, next, errors, polled, floor>>

LastPage == next = 0 \/ next = after \/ page + 1 = MaxPages

NextPage == /\ pc = "page"
            /\ batch = {}
            /\ ~LastPage
            /\ after' = next
            /\ page' = page + 1
            /\ next' = 0
            /\ pc' = "list"
            /\ UNCHANGED <<ch, lastPoll, file, batch, newest, errors, polled, floor>>

EndOfPages == /\ pc = "page"
              /\ batch = {}
              /\ LastPage
              /\ CycleOver
              /\ pc' = "finish"
              /\ UNCHANGED <<ch, lastPoll, file, newest, errors, polled, floor>>

(* The cursor moves past what the cycle saw, in memory and on disk.        *)
AdvanceToNow == /\ pc = "finish"
                /\ newest # 0
                /\ lastPoll' = clock + 1
                /\ SaveState(lastPoll')
                /\ newest' = 0
                /\ pc' = "idle"
                /\ UNCHANGED <<ch, cycleVars, errors, polled, floor>>

Advance == /\ pc = "finish"
           /\ newest # 0
           /\ lastPoll' = newest + 1
           /\ SaveState(lastPoll')
           /\ newest' = 0
           /\ pc' = "idle"
           /\ UNCHANGED <<ch, cycleVars, errors, polled, floor>>

NothingNew == /\ pc = "finish"
              /\ newest = 0
              /\ pc' = "idle"
              /\ UNCHANGED <<ch, lastPoll, file, cycleVars, newest, errors, polled, floor>>

PollerNext == /\ \/ Resume \/ StartAfresh \/ BeginCycle
                 \/ ListPage \/ ListFails
                 \/ EmitMessage \/ SkipMessage \/ NextPage \/ EndOfPages
                 \/ Advance \/ NothingNew
              /\ UNCHANGED <<clock, stamp>>

PollerTypeOK ==
    /\ pc \in {"start", "idle", "list", "page", "finish"}
    /\ lastPoll \in Nat /\ newest \in Nat /\ floor \in Nat
    /\ file \in Nat \cup {Unreadable}
    /\ page \in 0 .. MaxPages - 1
    /\ after \in {0} \cup Arrived /\ next \in {0} \cup Arrived
    /\ batch \subseteq Arrived
    /\ errors \in 0 .. MaxErrors
    /\ polled \subseteq Supported
=============================================================================
