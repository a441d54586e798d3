-------------------------------- MODULE Grab --------------------------------
(* `proxybroker grab`: broker.rs's grab_task fetches the providers, at most  *)
(* MAX_CONCURRENT_PROVIDERS at a time and in whatever order they answer, and *)
(* sends each new address into a bounded channel; write_stream of the command *)
(* line drains the channel into the output and, for `check --load --save`,   *)
(* whose stream is a list already in memory, into a save file as well.  The  *)
(* output passes through a buffer - one write in flight to an --outfile, the *)
(* line buffer of stdout - and the save file does not.                       *)
EXTENDS Extraction, SequencesExt

CONSTANTS Specs,          \* the providers, in registry order
          Page,           \* what each provider answers with
          Patterned,      \* the providers with a pattern of their own
          CountryOk,      \* the hosts country_ok keeps
          FileProxies,    \* the --load file of `check --load`
          Limits, Unlimited,
          MAX_CONCURRENT_PROVIDERS, CHANNEL_CAPACITY

ASSUME GrabAssumption ==
  /\ \A p \in DOMAIN Page : Page[p] \in Seq(Tokens)
  /\ Specs \in Seq(DOMAIN Page)
  /\ FileProxies \in Seq(Candidate)
  /\ Unlimited \notin Nat /\ Limits \subseteq Nat \cup {Unlimited}
  /\ {MAX_CONCURRENT_PROVIDERS, CHANNEL_CAPACITY} \subseteq Nat \ {0}

VARIABLES verb, format, limit, sink,          \* the command line
          todo, batch, seen, sent, at,        \* grab_task
          chan, listening,                    \* the channel, its receiver
          writer, item, out, saved, torn,     \* write_stream
          landed, half, spoiled,              \* how far the output has got
          answered                            \* history: providers that answered

task    == <<todo, batch, seen, sent, at>>
land    == <<landed, half, spoiled>>
sinks   == <<item, out, saved, torn, land>>
flags   == <<verb, format, limit, sink>>
vars    == <<flags, task, chan, listening, writer, sinks, answered>>

Init ==
  /\ verb \in {"grab", "load"}
  /\ format \in {"line", "array"}
  /\ sink \in {"file", "stdout"}
  /\ limit \in IF verb = "grab" THEN Limits ELSE {Unlimited}
  /\ todo = IF verb = "grab" THEN Specs ELSE <<>>
  /\ batch = <<>>
  /\ seen = {}
  /\ sent = IF verb = "grab" THEN <<>> ELSE FileProxies
  /\ at = IF verb = "grab" THEN "fetching" ELSE "ended"
  /\ chan = IF verb = "grab" THEN <<>> ELSE FileProxies
  /\ listening = TRUE
  /\ writer = "opening"
  /\ item = <<>>
  /\ out = <<>>
  /\ saved = <<>>
  /\ torn = FALSE
  /\ landed = 0
  /\ half = FALSE
  /\ spoiled = FALSE
  /\ answered = {}

-----------------------------------------------------------------------------
(* The task.                                                                *)

Candidates ==
  [p \in DOMAIN Page |-> extract(IF p \in Patterned THEN extract_with_pattern(Page[p])
                                                   ELSE find_addrs_global(Page[p]))]

\* buffer_unordered: the first few unfinished providers are in flight.
InFlight == {i \in DOMAIN todo : i <= MAX_CONCURRENT_PROVIDERS}

\* fetch: an answer, or any error or timeout, which yields no candidate.
fetch(i) ==
  /\ at = "fetching"
  /\ i \in InFlight
  /\ todo' = RemoveAt(todo, i)
  /\ at' = "sending"
  /\ \/ batch' = Candidates[todo[i]] /\ answered' = answered \cup {todo[i]}
     \/ batch' = <<>> /\ UNCHANGED answered
  /\ UNCHANGED <<flags, seen, sent, chan, listening, writer, sinks>>

NoMoreFetches ==
  /\ at = "fetching"
  /\ todo = <<>>
  /\ at' = "ended"
  /\ UNCHANGED <<flags, todo, batch, seen, sent, chan, listening, writer, sinks, answered>>

BatchDone ==
  /\ at = "sending"
  /\ batch = <<>>
  /\ at' = "fetching"
  /\ UNCHANGED <<flags, todo, batch, seen, sent, chan, listening, writer, sinks, answered>>

LimitReached_After == limit # Unlimited /\ Len(sent) > limit

LimitReached == limit # Unlimited /\ Len(sent) >= limit

Wanted(cand) == cand[1] \in IpAddrs /\ cand \notin seen /\ cand[1] \in CountryOk

Stop ==
  /\ at = "sending"
  /\ batch # <<>>
  /\ LimitReached
  /\ at' = "ended"
  /\ UNCHANGED <<flags, todo, batch, seen, sent, chan, listening, writer, sinks, answered>>

Seen(cand) == seen' = seen \cup IF cand[1] \in IpAddrs THEN {cand} ELSE {}

Skip ==
  /\ at = "sending"
  /\ batch # <<>>
  /\ ~LimitReached
  /\ ~Wanted(Head(batch))
  /\ Seen(Head(batch))
  /\ batch' = Tail(batch)
  /\ UNCHANGED <<flags, todo, sent, at, chan, listening, writer, sinks, answered>>

Send_IgnoresReceiver ==
  /\ at = "sending"
  /\ batch # <<>>
  /\ ~LimitReached
  /\ Wanted(Head(batch))
  /\ Seen(Head(batch))
  /\ Len(chan) < CHANNEL_CAPACITY
  /\ chan' = Append(chan, Head(batch))
  /\ sent' = Append(sent, Head(batch))
  /\ batch' = Tail(batch)
  /\ UNCHANGED <<flags, todo, at, listening, writer, sinks, answered>>

\* tx.send waits for room, and fails once the receiver is gone.
Send ==
  /\ at = "sending"
  /\ batch # <<>>
  /\ ~LimitReached
  /\ Wanted(Head(batch))
  /\ Seen(Head(batch))
  /\ \/ /\ listening
        /\ Len(chan) < CHANNEL_CAPACITY
        /\ chan' = Append(chan, Head(batch))
        /\ sent' = Append(sent, Head(batch))
        /\ batch' = Tail(batch)
        /\ UNCHANGED at
     \/ /\ ~listening
        /\ at' = "ended"
        /\ UNCHANGED <<chan, sent, batch>>
  /\ UNCHANGED <<flags, todo, listening, writer, sinks, answered>>

grab_task == (\E i \in InFlight : fetch(i)) \/ NoMoreFetches \/ BatchDone \/ Stop \/ Skip \/ Send

-----------------------------------------------------------------------------
(* write_stream and its Emitter.                                            *)

\* The output is a sequence of rendered proxies and of the marks around them:
\* out is what write_stream has handed over, the first landed of it are where
\* a reader finds them, with a part of the next one when half is set.
Elem(p) == [kind |-> "proxy", proxy |-> p]
Mark(c) == [kind |-> c]

prefix == IF format = "array" THEN <<Mark("[")>> ELSE <<>>
suffix == IF format = "array" THEN <<Mark("]")>> ELSE <<>>

\* A separator before every element but the first.
Rendered(p) == IF format = "array" /\ out # prefix THEN <<Mark(","), Elem(p)>> ELSE <<Elem(p)>>

\* File::create truncates the sinks before anything is drained.
Create ==
  /\ writer = "opening"
  /\ writer' = "draining"
  /\ out' = prefix
  /\ UNCHANGED <<flags, task, chan, listening, item, saved, torn, land, answered>>

Receive ==
  /\ writer = "draining"
  /\ chan # <<>>
  /\ item' = <<Head(chan)>>
  /\ chan' = Tail(chan)
  /\ writer' = "emitting"
  /\ UNCHANGED <<flags, task, listening, out, saved, torn, land, answered>>

\* A tokio File has one write in flight: the next one waits for it.
Settled == sink = "file" => landed = Len(out) /\ ~spoiled

\* write_all on the file returns with its own write in flight.  On stdout a
\* line goes out at its newline; the elements of an array have none, and stay
\* in the buffer until it is full.
Emit ==
  /\ writer = "emitting"
  /\ Settled
  /\ out' = out \o Rendered(item[1])
  /\ \/ sink = "file" /\ UNCHANGED landed
     \/ sink = "stdout" /\ format = "line" /\ landed' = Len(out')
     \/ sink = "stdout" /\ format = "array" /\ landed' \in {landed, Len(out), Len(out')}
  /\ writer' = IF verb = "load" THEN "saving" ELSE "draining"
  /\ UNCHANGED <<flags, task, chan, listening, item, saved, torn, half, spoiled, answered>>

\* write_ndjson on an unbuffered file: the line grows by several writes.
SaveBegins ==
  /\ writer = "saving"
  /\ ~torn
  /\ saved' = Append(saved, item[1])
  /\ torn' = TRUE
  /\ UNCHANGED <<flags, task, chan, listening, writer, item, out, land, answered>>

SaveEnds ==
  /\ writer = "saving"
  /\ torn
  /\ torn' = FALSE
  /\ writer' = "draining"
  /\ UNCHANGED <<flags, task, chan, listening, item, out, saved, land, answered>>

\* The stream has ended: the suffix is one more write.
StreamEnds == writer = "draining" /\ chan = <<>> /\ at = "ended"

Finish ==
  /\ StreamEnds
  /\ Settled
  /\ out' = out \o suffix
  /\ writer' = "flushing"
  /\ UNCHANGED <<flags, task, chan, listening, item, saved, torn, land, answered>>

Flush_Unwaited ==
  /\ writer = "flushing"
  /\ landed' = IF sink = "stdout" THEN Len(out) ELSE landed
  /\ writer' = "done"
  /\ UNCHANGED <<flags, task, chan, listening, item, out, saved, torn, half, spoiled, answered>>

\* flush waits for the file's last write; on stdout the newline of the suffix
\* has sent off whatever was buffered.
Flush ==
  /\ writer = "flushing"
  /\ Settled
  /\ landed' = Len(out)
  /\ writer' = "done"
  /\ UNCHANGED <<flags, task, chan, listening, item, out, saved, torn, half, spoiled, answered>>

\* A failed write ends the command and drops the stream.
Fail ==
  /\ writer' = "failed"
  /\ listening' = FALSE
  /\ chan' = <<>>
  /\ UNCHANGED <<flags, task, item, out, saved, torn, spoiled, answered>>

\* The failure of a write in flight is the error of the next call.
ErrorSurfaces ==
  /\ sink = "file" /\ spoiled
  /\ writer \in {"emitting", "flushing"} \/ StreamEnds
  /\ Fail
  /\ UNCHANGED <<landed, half>>

\* A file that is not created, or a line that is not saved.
WriteFails ==
  /\ writer = "saving" \/ (writer = "opening" /\ (sink = "file" \/ verb = "load"))
  /\ Fail
  /\ UNCHANGED <<landed, half>>

\* A write to stdout fails after any part of the buffer and of the new text.
StdoutFails ==
  /\ sink = "stdout"
  /\ writer = "emitting" \/ (writer = "flushing" /\ landed < Len(out))
  /\ landed' \in landed..Len(out)
  /\ half' \in BOOLEAN
  /\ Fail

\* The write in flight ends, and so does, as the process exits, the one of
\* what a failed command left in the buffer of stdout: all of it, or a part.
Land ==
  /\ sink = "file" \/ writer = "failed"
  /\ landed < Len(out) /\ ~spoiled
  /\ \/ landed' = Len(out) /\ half' = FALSE /\ UNCHANGED spoiled
     \/ landed' \in landed..(Len(out) - 1) /\ half' \in BOOLEAN /\ spoiled' = TRUE
  /\ UNCHANGED <<flags, task, chan, listening, writer, item, out, saved, torn, answered>>

write_stream ==
  Create \/ Receive \/ Emit \/ SaveBegins \/ SaveEnds \/ Finish \/ Flush \/ ErrorSurfaces

Next == grab_task \/ write_stream \/ WriteFails \/ StdoutFails \/ Land

\* The task and the writer keep running, a fetch ends by its own timeout and a
\* write in flight ends; no write need fail.
Spec == Init /\ [][Next]_vars /\ WF_vars(grab_task) /\ WF_vars(write_stream) /\ WF_vars(Land)
-----------------------------------------------------------------------------
(* Properties.                                                              *)

Over == {"done", "failed"}

\* Bounded channel, known phases, and nothing sent that was not seen.
TypeOK ==
  /\ verb = "grab" => Len(chan) <= CHANNEL_CAPACITY
  /\ at \in {"fetching", "sending", "ended"}
  /\ writer \in {"opening", "draining", "emitting", "saving", "flushing"} \cup Over
  /\ listening = (writer # "failed")
  /\ verb = "grab" => ToSet(sent) \subseteq seen

\* The addresses a provider's page really offers: a routable IP with a port
\* next to it, in a requested country.
Offered(p) ==
  LET Adjacent == {<<Page[p][i], Page[p][i + 1]>> : i \in 1..(Len(Page[p]) - 1)}
      Good(x) == /\ IsIp(x[1]) /\ ~IsIp(x[2])
                 /\ x[2][2] > 0 /\ x[2][2] < 65536
                 /\ Canon[x[1][2]] \in (IpAddrs \cap CountryOk) \ Unspecified
  IN {<<Canon[x[1][2]], x[2][2]>> : x \in {y \in Adjacent : Good(y)}}

\* grab delivers each address once and never more than the limit; it stops
\* short of the limit only when every provider has been asked and everything
\* the answering ones offer was sent, however their answers were ordered.
GrabExact ==
  /\ TypeOK
  /\ verb = "grab" =>
    /\ IsInjective(sent)
    /\ limit # Unlimited => Len(sent) <= limit
    /\ (at = "ended" /\ listening) =>
         \/ limit # Unlimited /\ Len(sent) = limit
         \/ todo = <<>> /\ ToSet(sent) = UNION {Offered(p) : p \in answered}

Emitted ==
  LET elems == InOrder(out, {i \in DOMAIN out : out[i].kind = "proxy"})
  IN [i \in DOMAIN elems |-> elems[i].proxy]

\* The proxies handed over that the output does not hold.
Unheld == {i \in DOMAIN out : i > landed /\ out[i].kind = "proxy"}

\* However the buffers are drained and wherever a write fails, the two sinks
\* of write_stream hold the stream in order.  The save file is what was handed
\* to the output, at most one proxy behind, and only its last line can be half
\* written; it is ahead of what the output holds by at most one proxy when
\* that is a file, whose failed write is not reported before the next, by none
\* when it is lines on stdout, and by a buffer when it is an array there.  A
\* command that ends well has every proxy of the stream in both, complete, and
\* a JSON array of them is a document: brackets around, commas between.
SinksAgree ==
  /\ verb = "load" =>
       /\ IsPrefix(saved, Emitted)
       /\ Len(Emitted) - Len(saved) \in {0, 1}
       /\ torn => saved # <<>> /\ saved = Emitted
       /\ writer = "done" => saved = FileProxies /\ ~torn
  /\ sink = "file" => \A i, j \in Unheld : i = j
  /\ sink = "stdout" /\ format = "line" => Unheld = {}
  /\ writer = "done" => Emitted = sent /\ landed = Len(out) /\ ~half
  /\ writer = "done" /\ format = "array" =>
       /\ out[1].kind = "[" /\ out[Len(out)].kind = "]"
       /\ Len(out) = 2 + Len(sent) + (IF sent = <<>> THEN 0 ELSE Len(sent) - 1)
       /\ \A i \in 2..(Len(out) - 1) : out[i].kind = "," <=> i % 2 = 1

\* The command ends, and after it the task does too, whether the stream was
\* drained or dropped in the middle.
GrabEnds == <>(writer \in Over /\ at = "ended")
=============================================================================
