-------------------------- MODULE LocalFileMapping --------------------------
(***************************************************************************)
(* The local_file user mapping plugin                                      *)
(* (plugins/user_mapping/src/local_file.cpp): a JSON file of mappings that *)
(* somebody edits while requests are mapped, and the copy of it in memory. *)
(*                                                                         *)
(* user_mapper_init runs in the main thread before the server has others;  *)
(* user_mapper_match runs in every thread that authenticates a request.    *)
(* One action is what runs between two locks, or between two looks at the  *)
(* file.  What the file says is the number of the edit that wrote it; one  *)
(* that does not open and one that does not parse are the same here, but   *)
(* a file that is removed has no time either.                              *)
(***************************************************************************)
EXTENDS Integers

CONSTANTS
  Threads,     \* The threads that call user_mapper_match.
  Main,        \* The thread that calls user_mapper_init.
  NoThread,    \* Nobody holds update_mutex.
  MaxEdits     \* Bound: the edits of the file.

ASSUME ConstantsAssumption ==
  /\ Main \notin Threads
  /\ NoThread \notin Threads \cup {Main}
  /\ MaxEdits \in Nat \ {0}

All == Threads \cup {Main}

VARIABLES
  edit,   \* The number of edits of the file: its contents, and its time.
  valid,  \* The edits that left a file that opens and parses.
  absent, \* The edits that left none.
  list,   \* profile_list: the edit it was read from; 0 before the first.
  last,   \* last_file_path_write: an edit; 0 is the epoch.
  mutex,  \* The thread that holds update_mutex.
  pc,     \* pc[t]: where thread t is.
  temp,   \* temp[t]: the temp_list of its update.
  used    \* used[t]: the list its last match looked at.

vars == <<edit, valid, absent, list, last, mutex, pc, temp, used>>

Init ==
  /\ edit = 1
  /\ \/ valid = {1} /\ absent = {}
     \/ valid = {} /\ absent \in SUBSET {1}
  /\ list = 0
  /\ last = 0
  /\ mutex = NoThread
  /\ pc = [t \in All |-> IF t = Main THEN "check" ELSE "off"]
  /\ temp = [t \in All |-> 0]
  /\ used = [t \in All |-> 0]

Goto(t, next) == pc' = [pc EXCEPT ![t] = next]

\* Somebody edits the file, well or badly, or removes it; the time of a file
\* is a new one.
Edit ==
  /\ edit < MaxEdits
  /\ edit' = edit + 1
  /\ \/ UNCHANGED <<valid, absent>>
     \/ valid' = valid \cup {edit + 1} /\ UNCHANGED absent
     \/ absent' = absent \cup {edit + 1} /\ UNCHANGED valid
  /\ UNCHANGED <<list, last, mutex, pc, temp, used>>

-----------------------------------------------------------------------------
(* update *)

\* Faulty variant: the code that init returns is not looked at.
StartAnyway(ok) == pc' = [u \in All |-> IF u # Main THEN "idle" ELSE "off"]

\* The end of init: the server starts its threads only if it succeeded.
Start(ok) == pc' = [u \in All |-> IF u # Main /\ ok THEN "idle" ELSE "off"]

\* Faulty variant: the lock is not scoped, and an exception keeps it.
LeaveLocked(t, ok) ==
  /\ mutex' = IF mutex = t /\ ok THEN NoThread ELSE mutex
  /\ IF t = Main THEN Start(ok) ELSE Goto(t, "lookup")

\* The end of update, by return or by exception; match goes on in both cases.
Leave(t, ok) ==
  /\ mutex' = IF mutex = t THEN NoThread ELSE mutex
  /\ IF t = Main THEN Start(ok) ELSE Goto(t, "lookup")

\* last_write_time throws.
NoTime == edit \in absent

\* last_write_time(file_path) == last_file_path_write
CheckTime(t) ==
  /\ pc[t] = "check"
  /\ IF NoTime THEN Leave(t, FALSE)
     ELSE IF last = edit THEN Leave(t, TRUE)
     ELSE Goto(t, "parse") /\ UNCHANGED mutex
  /\ UNCHANGED <<edit, valid, absent, list, last, temp, used>>

Parses == edit \in valid

Parse(t) ==
  /\ pc[t] = "parse"
  /\ IF Parses
     THEN /\ temp' = [temp EXCEPT ![t] = edit]
          /\ Goto(t, "swap")
          /\ UNCHANGED mutex
     ELSE Leave(t, FALSE) /\ UNCHANGED temp
  /\ UNCHANGED <<edit, valid, absent, list, last, used>>

\* The swap under list_mutex; the time of the file is read again, after it, and
\* there may be none any more.
Swap(t) ==
  /\ pc[t] = "swap"
  /\ list' = temp[t]
  /\ temp' = [temp EXCEPT ![t] = 0]
  /\ last' = IF NoTime THEN last ELSE edit
  /\ Leave(t, ~NoTime)
  /\ UNCHANGED <<edit, valid, absent, used>>

-----------------------------------------------------------------------------
(* match *)

\* Faulty variant: updates run side by side.
NoLock(t) == Goto(t, "check") /\ UNCHANGED mutex

TryLock(t) ==
  IF mutex = NoThread THEN mutex' = t /\ Goto(t, "check")
  ELSE Goto(t, "lookup") /\ UNCHANGED mutex

\* One thread updates the list; the others do not wait for it.
Match(t) ==
  /\ pc[t] = "idle"
  /\ TryLock(t)
  /\ UNCHANGED <<edit, valid, absent, list, last, temp, used>>

\* The profiles are searched under list_mutex, shared.
Lookup(t) ==
  /\ pc[t] = "lookup"
  /\ used' = [used EXCEPT ![t] = list]
  /\ Goto(t, "idle")
  /\ UNCHANGED <<edit, valid, absent, list, last, mutex, temp>>

-----------------------------------------------------------------------------

Step(t) == CheckTime(t) \/ Parse(t) \/ Swap(t) \/ Match(t) \/ Lookup(t)

Next == Edit \/ \E t \in All : Step(t)

Spec == Init /\ [][Next]_vars

\* The threads run, and requests to be mapped keep coming.
FairSpec == Spec /\ \A t \in All : WF_vars(Step(t))

-----------------------------------------------------------------------------
(* What the code promises *)

\* The type of every variable: a list, in the making or in use, is always the
\* contents of one file that parsed (update throws before it swaps).
TypeOK ==
  /\ edit \in 1 .. MaxEdits
  /\ valid \in SUBSET (1 .. edit)
  /\ absent \in SUBSET ((1 .. edit) \ valid)
  /\ list \in valid \cup {0}
  /\ last \in 0 .. edit
  /\ mutex \in Threads \cup {NoThread}
  /\ pc \in [All -> {"off", "idle", "check", "parse", "swap", "lookup"}]
  /\ temp \in [All -> valid \cup {0}]
  /\ used \in [All -> valid \cup {0}]

\* "fail fast via update": no request is ever mapped by an empty list, for
\* the server that has threads has read a whole file once, and an exception
\* in a later update leaves "our current good state".
ServesMappings == (\E t \in Threads : pc[t] # "off") => list # 0

\* The list never goes back to the contents of an older file, whatever the
\* threads' updates overlap with: update_mutex orders them.  So no thread maps
\* a client by older mappings than those it used before.
NeverBack == [][list' >= list /\ \A t \in Threads : used'[t] >= used[t]]_vars

\* README.md: "the plugin will reload the file to update the mappings without
\* having to restart the server": when the file rests, valid, the list becomes
\* what it says -- unless it was edited between the parsing of the file and the
\* reading of its time, when its time is taken for that of the older list.
Reloads ==
  \A e \in 1 .. MaxEdits :
    /\ \E t \in Threads : pc[t] # "off"
    /\ edit = e /\ e \in valid
    /\ last # e /\ \A t \in Threads : pc[t] # "swap"
    ~> list = e \/ edit # e
=============================================================================
