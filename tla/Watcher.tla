------------------------------ MODULE Watcher ------------------------------
(***************************************************************************)
(* spawn_watch (watch.rs): a task that polls for change events on the file   *)
(* `serve --load` read, waits until they stop, parses the file again and     *)
(* reconciles the pool with it.  The user, an editor or `find --save`        *)
(* rewrites the file in place (truncate, then line by line, as File::create  *)
(* and writes do) or replaces it at once.                                   *)
(*                                                                         *)
(* The file is the set of its complete lines and whether a malformed line,   *)
(* or no file at all, follows them.  serve parses it first and registers the *)
(* watch later, with the metrics listener and the re-checker's judges        *)
(* awaited in between; what is written meanwhile raises no event.            *)
(***************************************************************************)
EXTENDS LivePool

CONSTANT Contents   \* the proxy lists the user saves, none of them empty

ASSUME ContentsAssumption ==
  Contents # {} /\ Contents \subseteq (SUBSET Addr) \ {{}}

VARIABLES
  file,     \* [text, torn]
  writer,   \* <<>>, or <<W>> while W is being written in place
  event,    \* a notify event is queued
  pending,  \* the debounce window is open
  wpc,      \* unarmed, poll, reconcile, or stopped
  drop,     \* addresses the reconcile in progress still removes
  join,     \* addresses it still adds
  loaded    \* the list last parsed

watchVars == <<file, writer, event, pending, wpc, drop, join, loaded>>

\* serve has just parsed the file, complete or in the middle of a save; the
\* watch is not registered yet.
WatchInit ==
  /\ \E W \in Contents :
       \/ writer = <<>> /\ loaded = W
       \/ writer = <<W>> /\ loaded \in SUBSET W
  /\ file = [text |-> loaded, torn |-> FALSE]
  /\ event = FALSE /\ pending = FALSE /\ wpc = "unarmed"
  /\ drop = {} /\ join = {}

\* The watch delivers what is written once it is registered.
Notify == event' = (wpc # "unarmed")

-----------------------------------------------------------------------------
\* An in-place save begins by truncating the file.
BeginWrite(W) ==
  /\ writer = <<>>
  /\ writer' = <<W>>
  /\ file' = [text |-> {}, torn |-> FALSE]
  /\ Notify
  /\ UNCHANGED <<pending, wpc, drop, join, loaded>>

\* Part of a line, or the rest of one, reaches the file.
WriteMore ==
  /\ writer # <<>>
  /\ \E a \in writer[1] \ file.text :
       \/ file' = [file EXCEPT !.torn = TRUE]
       \/ file' = [text |-> file.text \cup {a}, torn |-> FALSE]
  /\ Notify
  /\ UNCHANGED <<writer, pending, wpc, drop, join, loaded>>

EndWrite ==
  /\ writer # <<>>
  /\ file = [text |-> writer[1], torn |-> FALSE]
  /\ writer' = <<>>
  /\ Notify
  /\ UNCHANGED <<file, pending, wpc, drop, join, loaded>>

\* An editor that writes a new file and renames it over the old one.
Replace(W) ==
  /\ writer = <<>>
  /\ file' = [text |-> W, torn |-> FALSE]
  /\ Notify
  /\ UNCHANGED <<writer, pending, wpc, drop, join, loaded>>

Write ==
  /\ wpc # "stopped"
  /\ \/ \E W \in Contents : BeginWrite(W) \/ Replace(W)
     \/ WriteMore \/ EndWrite

-----------------------------------------------------------------------------
\* The watch is registered and the task spawned; the file is not read again.
spawn_watch ==
  /\ wpc = "unarmed"
  /\ wpc' = "poll"
  /\ UNCHANGED <<file, writer, event, pending, drop, join, loaded, poolVars>>

\* A poll finds events on the file: the debounce window (re)starts.
Drain ==
  /\ wpc = "poll" /\ event
  /\ event' = FALSE
  /\ pending' = TRUE
  /\ UNCHANGED <<file, writer, wpc, drop, join, loaded, poolVars>>

\* A poll finds no event and DEBOUNCE has passed since the last one.
QuietLongEnough == pending /\ ~event

\* The first malformed line fails the whole parse.
read_ndjson(f) == ~f.torn

\* Mutant: the window is closed when the reconcile is over, with whatever
\* arrived meanwhile.
Done_ClosesWindow == wpc' = "poll" /\ event' = FALSE

Done == wpc' = "poll" /\ event' = event

\* The file cannot be parsed: the pool is left as it is.
KeepPool ==
  /\ wpc = "poll" /\ QuietLongEnough
  /\ ~read_ndjson(file)
  /\ pending' = FALSE
  /\ UNCHANGED <<file, writer, event, wpc, drop, join, loaded, poolVars>>

\* The file is parsed and compared with one snapshot of the pool.
reload ==
  /\ wpc = "poll" /\ QuietLongEnough
  /\ read_ndjson(file)
  /\ pending' = FALSE
  /\ loaded' = file.text
  /\ drop' = addrs \ file.text
  /\ join' = file.text \ addrs
  /\ wpc' = "reconcile"
  /\ UNCHANGED <<file, writer, event, poolVars>>

\* Removals first, one pool call each ...
ReconcileRemove ==
  /\ wpc = "reconcile"
  /\ \E a \in drop : remove(a) /\ drop' = drop \ {a}
  /\ UNCHANGED <<file, writer, event, pending, wpc, join, loaded, leased>>

\* ... then the additions.
ReconcileAdd ==
  /\ wpc = "reconcile" /\ drop = {}
  /\ \E a \in join : add(a) /\ join' = join \ {a}
  /\ UNCHANGED <<file, writer, event, pending, wpc, drop, loaded, leased>>

Reconciled ==
  /\ wpc = "reconcile" /\ drop = {} /\ join = {}
  /\ Done
  /\ UNCHANGED <<file, writer, pending, drop, join, loaded, poolVars>>

\* The handle is dropped: seen at the next poll, never inside a reconcile.
\* The task and its event queue are gone, and what becomes of the file is no
\* longer followed.
StopWatch ==
  /\ wpc = "poll"
  /\ wpc' = "stopped"
  /\ pending' = FALSE /\ event' = FALSE
  /\ writer' = <<>> /\ file' = [text |-> loaded, torn |-> FALSE]
  /\ UNCHANGED <<drop, join, loaded, poolVars>>

Watch ==
  \/ spawn_watch \/ Drain \/ KeepPool \/ reload
  \/ ReconcileRemove \/ ReconcileAdd \/ Reconciled
=============================================================================
