# TLA+ models of idpmodem

Models, model checks and machine-checked proofs for `idpmodem`, the Python
library that drives an Inmarsat IsatData Pro (IDP) satellite modem by AT commands over
a serial line. Paths are relative to the repository root; `atcommand.py` and `modem.py`
without a directory are those of `src/idpmodem/threaded/`.

## 1. Inventory of the system

| Part | Where | State it keeps | Status |
|---|---|---|---|
| AT protocol: `command()`, lock, queues, event thread, `stop()` | `threaded/atcommand.py` | `_lock`, `crc`, `pending_command`, `responses`, `events`, `alive`, `transport` | modelled: `AtProtocol` |
| Byte framing: `data_received()`, `ByteReaderThread` | `threaded/atcommand.py` | `buffer`, `pending_command` | modelled: `AtFraming` |
| Request queue: `atcommand()`, hold-off, error detail, `_unsolicited()`, `connect()`, `disconnect()` | `threaded/modem.py` | `commands` (a `Queue` of depth 1), `protocol`, `transport`, `_boot_time` | modelled: `IdpModem` |
| CRC configuration: `config_init()`, `crc_enable()`, `config_restore_*()`, `config_nvm_save()` | `threaded/modem.py` | `protocol.crc`, the modem's `%CRC`, its stored configuration | modelled: `CrcNegotiation` |
| Cached identity, power mode, wake-up period | `threaded/modem.py` 390-492 | `_mobile_id`, `_versions`, `_manufacturer`, `_model`, `_power_mode`, `_wakeup_period` | modelled: `ModemCache` |
| Satellite status: the poll, its hold-off, the properties that read it | `threaded/modem.py` 1063-1171 | `_holdoffs['sat_status']`, `_snr`, `_ctrl_state`, `_beamsearch_state`, `_geo_beam_id` | modelled: `ModemCache` |
| Messages and event notifications | `threaded/modem.py` 628-873, 1027-1061; `asyncio/atcommand_async.py` 640-1185 | the modem's transmit and receive queues, its register S88; lists read before a loop | modelled: `MessageQueues`, `MessageExchange` (partly: section 7) |
| Asyncio client: `command()`, `_command()`, `_send()`, `_recv()` | `asyncio/atcommand_async.py` 192-400 | `_serial`, `_event`, `crc`, `_retry_count`, `_pending_command` | modelled: `AsyncClient` |
| CRC-16 | `crcxmodem.py` | none | modelled: `Crc16` |
| Common message format codecs | `codecs/common_message_format/` | field values of a message object | modelled: `MessageCodec` (partly: section 7) |
| NMEA and Location | `location.py` | a `Location` being put together | modelled: `Nmea` |
| Periodic reporting examples | `examples/periodic_reporting.py`, `examples/asyncio/periodic_reporting.py` | queued reports, commands to do | modelled: `PeriodicReporting` |
| GNSS settings, temperature, S-registers, trace events, names of satellites and beams | `threaded/modem.py`, `asyncio/atcommand_async.py` | none of their own | not modelled |
| Asyncio port of the protocol | `asyncio/atcommand.py`, `asyncio/modem.py` | as the threaded one | not modelled: unfinished |
| Message definition files | `services.py`, `message_definitions.py`, XML export | lists | not modelled |
| S-register table, constants, error codes, helpers | `s_registers.py`, `constants.py`, `aterror.py`, `helpers.py` | none | not modelled: tables |
| Simulator | `tests/simulator/` | none | not modelled; read for what a modem answers |

**How the parts interact.** An application calls an operation of `IdpModem` on any
thread. The operation calls `atcommand()`, which puts a token in a `Queue(maxsize=1)`,
calls `protocol.command()`, and takes a token out again in a `finally` clause; an ERROR
response makes it ask for `ATS80?` with the same token. `command()` takes a lock, drops
at most one old line, remembers the request in `pending_command`, writes it, and reads
`responses` until OK or a CRC line, or until `get()` times out. A reader thread hands
bytes to `data_received()`, which cuts them into lines, and `handle_line()` queues them
as responses if a request *was ever* pending, as events otherwise; an event thread calls
back `IdpModem._unsolicited()`. `connect()` makes a new protocol object, which starts
without CRC whatever the modem does; `disconnect()` empties the token queue and closes
the transport.

The asyncio client does the same job in one class: `command()` waits for an event if it
is called from another thread, `_command()` opens a port of its own, reads what has come
unasked, sends, and reads the answer; for an ERROR and for a bad CRC it calls `command()`
again from within. Both clients list and change the modem's message queues with one
command per message. A payload is made by a message object of the codec, travels as
text in a response with a CRC, and is decoded into an object that may have decoded others
before. The example applications put it all together: a fix becomes a `Location`, this a
report in the transmit queue, and the loop watches both queues.

**What is hard.** Four kinds of thread (callers, reader, event thread, whoever calls
`disconnect()`) share state of which only `command()` is under a lock. Requests can be
lost, lines garbled or interleaved with unsolicited ones, answers can come after the
time-out. The CRC setting lives on both sides of the line and is inferred by the host
from what comes back. `disconnect()` touches the queue's internals while others are
blocked on it. The coroutines of the asyncio client share a port object, a pending
command, a CRC flag and a retry count, and interleave at every await; its calls nest.
Operations on messages read a list and act on it one message at a time, while the network,
the modem and other clients change the queue. Codec objects carry state from one message
to the next. `PROJECT.json` lists each of these hazards at its line.

**What makes each part correct.**
- *Protocol:* a response belongs to the call it is returned to; what a CRC has
  validated is the whole answer; the host learns the CRC setting; every call ends and
  gives the lock back; `stop()` ends the event thread.
- *Framing:* no byte is lost; an answer arrives framed as the modem sent it, though
  `pending_command` is set between any two bytes.
- *Request queue:* the token taken back is one's own; the error detail is that of one's
  own command; no wake-up is lost; every call is served or turned away.
- *CRC configuration:* host and modem agree once a command has ended; `config_init()`
  succeeds.
- *Cached attributes:* what is cached is what the modem has, whichever thread sets it.
- *Satellite status:* no thread polls more often than the hold-off allows; an answer is
  that of the latest poll and not older than the hold-off; the four attributes are of
  one poll.
- *Asyncio client:* once nothing runs, the port is closed and the event clear; a call
  that runs alone gets its own answer and sends its command once, whatever overlapping
  calls left behind; no coroutine waits for what nobody will do.
- *Messages:* what an operation says it did is what it did, whoever else uses the queues.
- *Codecs and CRC:* a message that is retrieved has the values it was sent with; a garbled
  one is refused.
- *Location:* the order of the sentences of a fix does not matter but for the order in
  which satellites are listed; none is listed twice.
- *Periodic reporting:* a report arrives as what the fix said; the asyncio example never
  has two reports on their way.

## 2. Modules

    CommandService            what a blocking command call promises
       ^ implemented by              ^ implemented by
    AtProtocol                    IdpModem  (uses command() as CommandService)
    AtFraming                     CrcNegotiation  (uses one atcommand() as a step)
                                  ModemCache      (likewise)
    AsyncClient                   (the other client, with a serial port of its own)

    PeriodicReporting             the applications, with another client beside them
       | extends
    Nmea   MessageExchange        a message from encode() to decode()
              | extends
           MessageQueues  MessageCodec  Crc16

    AtProtocol_proofs  AtFraming_proofs  IdpModem_proofs  CrcNegotiation_proofs
    ModemCache_proofs  AsyncClient_proofs  Payload_proofs  PeriodicReporting_proofs
    MCAtProtocol  MCAtFraming  MCIdpModem  MCCrcNegotiation  MCModemCache
    MCAsyncClient  MCMessaging                                       (for TLC)

**CommandService** is the abstract specification: per thread `idle`, `waiting` or
`served`; at most one thread is served; with fairness, every call is served or turned
away and every served call ends. Both `AtProtocol` and `IdpModem` refine it, by a
mapping that reads `svc` off their `pc`. That is what allows `IdpModem` to use
`command()` as a short sequence *lock - running - outcome*.

**AtProtocol** has one action from each wait of `command()` to the next: `Call`,
`Acquire` (the lock), `ClearOld`, `Send` (`pending_command` and `write_line()`),
`ReadLine` (one pass of the loop, with all branches) and `TimeOut`. `Receive` is the
reader thread with `handle_line()`; `TestAlive` and `HandleEvent` are the event thread;
`StopBegins`, `StopWakes` and `StopAborts` are the three statements of `stop()`, called by a
thread of its own; `ConnectionLost` is `connection_lost()`. A line is a record of its
kind and the request it answers, so that properties can say whose line it is. The modem
is the environment: it accepts a request if its CRC is present exactly when it wants one,
echoes it, and answers. Requests may be lost, lines garbled, and a time-out may expire
before the answer; these disturbances together are bounded by `MaxFaults`.

**AtFraming** refines the reader: bytes are CR, LF, or a *text* standing for a
run of characters without line ends. `DataReceived` is `data_received()` for one byte,
`HandleLine` is `handle_line()`, which reads `pending_command` a second time. `SendCommand`
may come at any moment, as `command()` gives up with `AtTimeout` whatever is still
arriving; the modem answers what it was sent one after the other. The history
`overtaken` notes a command sent before the echo of a different one was read.

**IdpModem** has one action per step of `atcommand()` that another thread can come
between: the test of the queue, of the hold-off, `put()` (blocking in `putters`), the use
of `self.protocol`, the lock of that object, the outcome, `ATS80?`, and `get()` in the
`finally` clause (blocking in `getters`). `notify()` of `queue.Queue` wakes one blocked
thread, which has to try again while others may overtake it. `disconnect()` is two
actions: clearing the queue, which notifies nobody, and closing. `_unsolicited()` is two:
the test of the queue and the writing of the hold-off.

**CrcNegotiation** takes one `atcommand()` on an undisturbed line as a step whose effect
on both CRC settings is that of `AtProtocol`; what remains is the order of such steps:
the second try of `config_init()`, the assignment of `crc_enable()` after its command,
restored configurations, reconnection and power cycles.

**ModemCache** takes an `atcommand()` as a step in the same way: it is carried out and
answered, fails, or is carried out though its answer was missed. What is left is what
happens between the command and the assignment, when the queue is free for other threads.
A getter is `Get`, `Query`, `Assign`; that of the versions assigns an empty dictionary, which
other threads see, and puts in its three keys one at a time (`Fill`). A setter is `Set`, `SetCommand`, `Assign`; `Restore`
is `config_restore_nvm()` or `config_restore_factory()`, which forget nothing. Reading
the status is `Read`, then `_satellite_status_get()` in steps: `Check` (the hold-off),
`Stamp`, `Poll`, and four times `AssignStatus`, each of the first three of which may
raise. A status is identified with the poll that read it, so that properties can say
which poll an attribute is of and how old it is. Time is `int(time())` and
advances by `Tick` between any two steps.

**AsyncClient** has one action from each await to the next, but for the two places where a
call in another thread can meet the others between statements and change what they
do: the start of `_command()` (`Begin` sets the event, `OpenPort` opens the
port) and its `finally` (`Finally` tests `self._serial`, `Close`, `Drop`, `Clear`). `Turn` keeps
these together for coroutines of one loop, which have it to themselves between awaits.
The nested calls' outer `finally` clauses run one after the other, each in its own
steps (`Left`). A caller is a stack of
frames of `_command()`: a frame that read ERROR waits for a nested `ATS80?`, one that read
a bad CRC for a nested call with the same command. Each frame records whether the port
it reads from is the current `self._serial`, one that another call has replaced
there, or one that is closed. `TakeLine`, `TakeCrc`, `NoCrc`, `Drained`, `Timeout` and `Broken` are the ways a
read can end; `CrcError` is the retry, within the `retries` of the call that it is in (`Limit`:
the nested `ATS80?` has none). `Main` callers are coroutines of the client's loop,
`External` ones run in another thread and spin on the event. The modem answers its
requests in turn, may refuse, garble, lose, delay, and change its CRC setting; it answers the command itself with the bare result code, and
`ATS80?` with the error code before it.

**MessageQueues** takes a command with its answer as a step; an operation that sends
several has a step for each: `MoClear` / `MoClearNext` / `MoClearEnds` (the asyncio
`message_mo_clear()`, whose loop passes over messages that are not open), `MoDelete` / `MoDeleteNext` (the threaded one), `ControlSet` /
`ControlWrite` (`notification_control_set()`, whose reading of the register may fail as well). A command may time out, carried out or
not. The network moves a message along its states, and the modem forgets finished ones. The
two classes differ in what they do on failure; `api` says which is in use.

**MessageCodec** is a set of pure operators: sizes, setters, `encode()` and
`decode()` of each type of field, of arrays and messages, bit by bit. A field object is
its description and its state, so that decoding into a used object is what it is in
the code. A text is encoded as a byte for each character and decoded as utf-8 (`Utf8`), which
raises or gives other characters from 128 on. **Crc16** has the table and the byte-wise update of `crcxmodem.py` next to polynomial
division. **Nmea** folds sentences into a Location; its satellites are a list, in which a sentence renews
a satellite in its place or adds it at the end (`Renewed`). **MessageExchange** composes them: a
message object is filled by its setters, encoded, kept in the queue, read whole or with
an octet garbled, checked and decoded. **PeriodicReporting** adds the main loops of the two
examples: `Locate` or `GnssTimeout`, `Report`, `PollMo`, `PollMt`, `Command`. When a
report or a poll is due is left open.

The definitions named "a faulty variant" state plausible mistakes in the code next to the
definition they vary. No specification uses them: they are there to show, by substitution
in a run, that each property would notice. `PROJECT.json` pairs them up.

## 3. Runs

| Run | Checks | Bounds |
|---|---|---|
| `at_safety` | `OwnAnswer`, `VerifiedIsWhole`, `CrcLearned`, `ReturnsResultCode`, `EventsAreUnsolicited` | 2 threads, 3 calls of query / CRC on / CRC off, modem with or without CRC, 1 unsolicited line, 1 disturbance |
| `at_live` | `TypeOK`, `StopEndsEventThread`, `ImplementsService` | 2 threads, 2 calls of query / rejected, 1 unsolicited line, `stop()` and loss of the port at any moment |
| `at_unsolicited` | finding: `UnsolicitedGoesToEvents` is violated | 2 calls, 1 unsolicited line |
| `at_error` | finding: `ErrorIsReturned` is violated | 1 rejected command |
| `modem_connected` | `TokenIsMine`, `DetailIsMine`, `NoLostWakeup`, `ImplementsService` | 3 threads, 1 call each (waiting or not), 1 reboot |
| `modem_reconnect` | `TypeOK`, `TokenHasTaker` | 2 threads, 2 calls each, 2 connections, 1 reboot |
| `modem_hang` | finding: `NoLostWakeup` is violated once `disconnect()` takes part | 2 threads, 1 call each |
| `crc` | `TypeOK`, `Agreement`, `InitSucceeds` | 2 threads, 3 operations of every kind, 1 power cycle, any number of reconnections |
| `modem_cache` | `TypeOK`, `CacheCurrent`, `FreshAnswer`, `StatusWhole`, `PollsSpaced` | 2 threads, 3 operations, an attribute with a setter and the versions, 2 values, hold-off 2 s, 3 s, 1 failure |
| `framing` | `TypeOK`, `NothingLost`, `ExactFrames`, `AnswersToResponses`, `NothingStuck` | 2 commands, 2 unsolicited reports of five framings |
| `async_client` | `TypeOK`, `IdleIsClean`, `AloneSucceeds`, `AloneOwnAnswer`, `AloneSendsOnce`, `MainNeverStuck` | 2 coroutines and 1 caller in another thread, 3 calls of which 2 may overlap, `retries` 1 or 2, nesting of 2, 1 disturbance |
| `messaging` | `TypeOK`, `ClearIsExact`, `ControlSetExact`, `RoundTrip`, `OneReportPending`, `ReportArrives`, `FixOrderFree` | the application and 2 clients, 2 events, 3 maps, 2 names equal in 8 characters, 10 messages over 3 definitions with fields of every type, 5 fixes, 1 fault, 1 tick of the clock; 3 submissions and cancellations, or 1 and a received message, or 2 received, or 3 changes of the events |

**Why the bounds suffice.** The protocol has one lock, so a second thread is enough for
every race with its holder; three calls let a disturbed call be followed by a call
that finds the left-overs and one that must have recovered. One disturbance is
what separates a clean from a dirty queue; the code has no counter that would tell two
apart. Three threads in `modem_connected` are needed for a woken `put()` to be overtaken
by a newcomer while another thread still holds its token. Three operations let one
thread's `crc_enable()` assign after the other thread's has begun and ended. In
`modem_cache`, three operations are a setting with two that overlap or follow it, or two
polls and a reading between them; a hold-off of 2 s has a reading before, at and after
its end. In
`framing`, two commands set `pending_command` from None and from a previous command, the second
one before, while or after the answer to the first arrives, and two reports can surround an answer. In `async_client`, two overlapping calls make every
race over the shared attributes, and the third call, alone, is the one that shows what
they left; a nesting of 2 is a call with its `ATS80?` or its retry (the third level ends in
the interpreter's error, as an unbounded one would). In `messaging`, three operations on
the transmit queue are a clearing with a cancellation and a submission inside it; three
changes of the events are two overlapping and one alone; two received messages decode into
one object one after the other. The two queues and the events do not touch each other but
in the application, so that their budgets need not be exhausted together. The payload
limits are 17 and 10 bytes instead of 6398 and 9998, so that a message at the limit is small.
Proofs (section 5) remove the bounds for the
properties they cover.

**Deadlock** is checked in every run with a disjunct `AllDone` for the system at rest, so
a thread that can never continue is reported. `async_client` and `messaging` have budgets
and end when these are spent (`MainNeverStuck` says what may not stop before). The other exceptions are `modem_reconnect` and
`modem_hang`: after `disconnect()` a thread may really stay blocked, which is what
`modem_hang` shows.

**Conditions of properties.** `OwnAnswer` and `VerifiedIsWhole` hold as long as no
answer came after its time-out (`late = 0`): once one has, its lines are left for the
following calls, and `ClearOld` drops only one of them. `CrcLearned` is about a
line on which nothing was lost or garbled. `Agreement` needs `crc_enable()` to be used by
one thread only and nothing restored or reset; `InitSucceeds` excludes a host
that uses CRC on a modem that does not. `CacheCurrent` leaves
out attributes with a doubt: their setting overlapped another use, was carried out
without an answer, or was undone by a restored configuration, and nobody has set them
since. `FreshAnswer` and `StatusWhole` need that no two polls overlapped (`PollsSpaced`
does not). `ExactFrames` excludes an empty `<cr><lf>` from
the modem (`blank`) and a command sent before the echo of another was read (`overtaken`); that of
a late answer whose echo has been read is not excluded. `FixOrderFree` compares
Locations but for the order of `satellites_info`. Each condition is in the comment of its property, and TLC finds a
counterexample when it is dropped. In `AsyncClient`, *alone* means that no other call ran
at any moment of this one, *clean* that the modem owed no answer when it began, *calm*
that all faults lay before it and the client did not expect a CRC of a modem that sends none.
`AloneSucceeds` is about calls that are over: each has returned an answer. That a call ends is not
claimed, and of a refused call in another thread it is not true (section 6).
`RoundTrip` is about fields that `Carried` says the code can carry, `ReportArrives` about
values that fit; both operators list the exceptions. `ControlSetExact` holds for
a call no other overlapped and of whose entries only the last turns an event off.
Where a condition leaves out a failure that the code has, `PROJECT.json` lists that hazard without
a property and says so.
The symmetries used are of interchangeable callers, in runs of invariants only.

## 4. Fairness, and what it rests on

- Weak fairness of each thread's steps, of the reader, of the event thread and of a `stop()` that
  has begun (`StopWakes \/ StopAborts`): the operating system schedules every runnable
  thread. That `stop()` is called at all is not assumed.
- Weak fairness of the modem's answer: it answers what it has received. What it
  does not answer ends by the time-out of `get()`, which is a step of the thread.
- Time passes: the hold-off runs out.
- The lock and the queue are *not* assumed to be handed over fairly: weak fairness of a
  thread's step lets another thread take the lock first whenever it is free. That every
  call is nevertheless served in `at_live` and `modem_connected` follows from the
  number of calls being finite; with callers that never rest, Python's `Lock` and `Queue`
  do not promise more. The strong fairness of `Serve` is in the abstract
  specification, as what is to be shown, never among the assumptions.
- A time-out is taken when nothing more can come (or, as a disturbance, before).
  Unsolicited lines arriving without end within the time-out of each other would
  keep `command()` reading for ever, as every line restarts the time-out; they are
  bounded by `MaxUrcs`.

## 5. Proofs

Checked with TLAPS for every set of threads and every bound.

`AtProtocol_proofs`: `TypeCorrect` (`TypeOK`); `OneCommandAtATime` (two threads are never
both inside `command()`); `OnlyUnsolicitedAreEvents` (`EventsAreUnsolicited`);
`ServiceSafety` (the safety part of `CommandService` is implemented). The strengthening
is `LockIsMine`: a thread is between `Acquire` and `Leave` exactly if it is the
value of `lock`; without it one could not show that a step that maps to `Serve` is
taken only when no other thread is served. For events, the strengthening says that a line
on its way that answers a request implies `pending_command` is set, as `Send` sets it
before writing and nothing resets it.

`IdpModem_proofs`: `TypeCorrect`; `OneCommandAtATime` (`TokenIsMine`);
`ErrorDetailOfOwnCommand` (`DetailIsMine`); `NoWakeupIsLost` (`NoLostWakeup`), all for
`ConnectedSpec`; `NoTokenIsOrphaned` (`TokenHasTaker`) for `Spec`, with disconnection;
`ServiceSafety`, for `ConnectedSpec`. `TokenIsMine` is inductive once one knows that nobody waits in `get()`;
`DetailInv` adds that between an ERROR and the answer to `ATS80?` the failing command
kept in `s80` is one's own; `WakeupInv` that only threads at `put()` are blocked there;
`TakerInv` that the queue never holds two tokens, so that whoever adds one is its taker.

The second part of `AtProtocol_proofs`: `AnswersAreOwn` (`OwnAnswer`), `VerifiedAnswersAreWhole`
(`VerifiedIsWhole`), `ResultCodeIsReturned` (`ReturnsResultCode`) and `CrcIsLearned`
(`CrcLearned`), on top of `LockIsMine`. The invariant is about one sequence, `Stream`: the responses that
are queued, then the lines on their way. While no answer has come late, what is in the
stream apart from unsolicited lines belongs to the call that holds the lock, is what is
left of *one* answer to its request, and continues what the call has already read; a
request still on the line means that there is no such answer yet. Queue and line have to be
taken together, as `Receive` moves a line from one to the other at any moment. In
`AnswerInv`, `OneRequest` is about the request, `OneAnswer` about the lines, and `CrcAhead`
says that the OK or the CRC line still to be read will tell the host the setting the modem has.
`VerifiedInv` adds that what was verified is the whole body of an answer the modem has given
(`Final`); `GivenInv` that every CRC line is of such an answer, late or not; `LearnedInv` that
on an undisturbed line a host with CRC on a modem without has an OK ahead, and one
without CRC on a modem with it a CRC line. The proof showed that `AnswerTo` had been
written as a CASE with overlapping guards, of which TLC takes the first and the
logic any; it is an IF now.

`AtFraming_proofs`: `TypeCorrect` (`TypeOK`), `AnswersAreResponses`
(`AnswersToResponses`), `NoTextIsStuck` (`NothingStuck`), `FramesAreExact` (`ExactFrames`) and `NoByteIsLost`
(`NothingLost`). For the second, the strengthening says that as long as no command was ever
sent, no part of an answer is anywhere: on the line, in the buffer or among the packets. The
next two are about `Stream`, the buffer and what is left of the line behind it. For
`NothingStuck`, it ends in a line end unless the modem is in the middle of an answer
(`EndInv`). For `ExactFrames`, each text of an answer in it has its frame around it, and
the reader starts a packet where the frame begins and is not in the middle of an earlier
one (`WellFramed`), as long as nothing is `Spoilt`: the modem has sent no empty line, and no
command was sent before the echo of another was read, so that every echo still to come is of
the command that is pending. Both need `ReportsAssumption`:
what the modem sends unasked ends in a line end. `NoByteIsLost` is by the algebra of
concatenation: the packets put together grow by what leaves the buffer.

`CrcNegotiation_proofs`: `TypeCorrect`, `CrcAgreement` (`Agreement`) and
`ConfigInitSucceeds` (`InitSucceeds`). The strengthening `Settled` says what holds in the
middle of operations: a host with CRC has a modem with CRC, and a pending assignment of
`crc_enable()` is by the only thread that uses it and writes what both settings already
are. For `config_init()` it is `InitInv`: while it is undisturbed a host with CRC has a
modem with CRC, and by its second attempt the two agree.

`ModemCache_proofs`: `TypeCorrect`, `CacheIsCurrent` (`CacheCurrent`), `PollsAreSpaced`
(`PollsSpaced`), `StatusIsWhole` (`StatusWhole`) and `AnswersAreFresh` (`FreshAnswer`). `CacheCurrent` speaks of idle
attributes only; `CacheInv` says what holds in between, for an attribute without doubt (and `KeysInv`, of the versions, that each key is there or
still to be put in by some thread, as one that empties the dictionary fills it from the first key):
its setter is alone (`SetAlone`), whoever has a value to assign has the modem's
(`Carries`), and only a thread that still has to store it may have left the cache behind
(`Stored`). `PollInv` adds to `PollsSpaced` that the stamp is as late as every poll, and
that a thread between the test of the hold-off and the stamp has not polled within
the hold-off (`Ready`), which other threads' polls in between do not change. `WholeInv`
says of polls that did not overlap that there is one poller, its poll is the latest, and
the attributes it has assigned are of it. `AnswersAreFresh` adds `StampIsLatest`, the
stamp is the time of the latest poll, so that a thread held off is told what that poll
has assigned.

`AsyncClient_proofs`, for any number of callers, nested calls and disturbances:
`TypeCorrect` (`TypeOK`), `IdleClientIsClean` (`IdleIsClean`), `CommandSentOnce`
(`AloneSendsOnce`), `AloneAnswerIsOwn` (`AloneOwnAnswer`) and `AloneCallSucceeds`
(`AloneSucceeds`). `StepKind` shows that each
step of a caller ends its call, lets its top frame go on, sends, retries, or asks for the
error code, and the theorems are by these kinds. For `IdleIsClean` and `AloneSendsOnce`, what
a frame has read does not matter, and `Shape` leaves it open: only the end of a call can leave no call
running, and while there is a port some call has more to do than clear the event (`Served`), and
while the event is set without one, some call will clear it (`Awaited`), also if
another thread's `finally` has come in between; and `AloneBounded` says that a call
that runs alone has no more frames for its own command than the retry count allows, each
of which has sent it at most once (a call alone can start with a retry count that earlier ones
left, which leaves it fewer retries, never more). A nested `ATS80?` has no retries, so that a bad CRC
in its answer ends the call. `TypeCorrect` is where the bound of the
count is: it stays below the `retries` of some call, not of the one that finds it.

`AloneAnswerIsOwn` says whose every line is. While a call is alone and began on a clean
line, whatever is in the port, owed by the modem or read by one of its frames belongs to a
request of that frame or of one below it (`OwnWorld`, `Ids`), and a frame that
begins a nested call leaves nothing behind that its own answer could be mistaken for. What
is returned at the end passes through all frames, each of which may replace it; that it is
still an answer to the call is by induction over the frames (`ResponseSteps`).
`AloneCallSucceeds` follows a calm call through the stages of its top frame (`CalmStage`:
waiting for the port, draining it, asking, hearing the answer line by line, closing): in each,
port and modem together hold exactly what is left of the answer, so that no time-out can
come, and an ERROR only once, when the modem expects a CRC the client does not send yet;
the second frame, which asks for the error code, does (`CalmDepth`). A call that starts while
another one is nested to the depth the interpreter allows would fail for that reason alone, which is why
`DepthAssumption` leaves room for one command within another.

`PeriodicReporting_proofs` is about the queues with everything that uses them, for any clients,
names, maps, payloads, fixes and budgets: `TypeCorrect` (`TypeOK`), `ClearingIsExact`
(`ClearIsExact`), `ControlIsExact` (`ControlSetExact`) and `OneReportAtATime`
(`OneReportPending`). `StepKinds` and `NextTyped` reduce some twenty actions to two kinds of
change of the transmit queue: it is *derived* from what it was (messages leave it, or go on to a
later state; none that is not open or ready becomes so again), or one message is *added*
at its end under a name it does not have. What identifies a message is `by`, what was left of
the budget when it was submitted: in `MoInv` all are different and above what is left now,
names are different, too. With that:
- `ClearInv` is about a `message_mo_clear()` in the middle of its loop. The count is that of
  the messages it has cancelled, none of which is ready; and a message that it found and that
  is ready is on the part of its list that is still to come (`Awaits`). It is kept by
  the steps of all others because they derive the queue, or add a message whose number is
  not among those found.
- `ControlInv`: between reading and writing the register, a client that is alone finds it as
  it read it, and no other is in the middle of this. What the loop over the map yields is
  `BitmaskExact`, by induction over its entries: events named before the last entry are on, those
  not named as they were, and only the last entry can leave its event off, because each
  later entry sets again all that was set in the beginning.
- `ReportInv`: the asyncio example, while it runs, knows of its open report, and is about to send
  another only if it knows of none. It forgets reports only when the queue is empty. A
  submission that times out although it was carried out ends the application, which is why
  `ReportInv` speaks of a running one while `OneReportPending` does not.

Three more of its theorems are about what is in a message, and use `Payload_proofs`:
- `OrderOfSentences` (`FixOrderFree`): a Location that was read is the one the sentences give
  in any other order, and if one order raises all do. `Locates` says of each attribute what it
  is in terms of the *set* of sentences read so far (the highest count of satellites that any
  GGA or GSV gave, the satellites of all GSV, the columns of the other sentences, the
  defaults where there was none); two Locations for one set are equal (`LocatesOnce`), and
  each sentence takes the Location of a set to that of the set with it. A sentence
  is `Rejected` by what is in it alone, so that no order can avoid it.
  The list of satellites has the satellites of
  that set, each once (`ListsOnce`); in which order is left open.
  `FixOrderFree` quantifies over bijections of the positions.
- `ReportsArrive` (`ReportArrives`): a report whose values fit reads at the other end as the
  application put them in, takes one byte more than `ota_size` says, and has the position of the fix within
  one unit. `TellingSteps` finds which steps can return a report or a location;
  `FixInv` keeps a location together with the sentences it came from between `Locate` and `Report`,
  and `ReportedInv` and `LocatedInv` keep what was returned.
- `MessagesArrive` (`RoundTrip`): a received message whose values `Carried` allows reads as it was sent, in fields of
  every type and size. `MtInv` says of the messages waiting in the modem that they can be encoded, so that
  the answer to `AT%MGFG` is a payload of whole bytes, and `LineIs` and `AcceptedIs` that the client
  accepts exactly the line that was sent: one in which a byte was changed has another CRC. `InboxInv`
  says of a message object that its fields are those of its definition and hold values of their type, whatever
  was decoded into it before (`DecodeShaped`), as `decode()` into an object that is in use may leave optional
  fields as they were.

`Payload_proofs` is about operators and has no specification. It proves what the three are made of,
for all sizes: what
`Binary` and `Number` yield, and that the second undoes the first (`NumberOfBinary`, `NumberTrip`); the same for signed
numbers, with the two's complement by inverted digits plus one (`SignedTrip`), enumerations and
booleans; which octets the digits of a payload are (`BytesIs`, `BytesOfChars`); what `encode()` makes
of a list of fields (`EncodeIs`, with the padding: `PaddedIs`); and that `decode()` of it
returns the fields that were included and leaves the others (`MessageArrives`), for any schema
of fields each of which makes its own round trip, with whatever bits behind. What a field says it has used
is then where the next one begins. Three of its theorems are results of their own:
- `FieldTrip`: a field of any type, of any size its constructor takes, reads as it was set, if `Carried` says its
  value can be carried: of texts, those of characters 1 to 127 (`AsciiIs`). Texts and data are by their length prefix, one byte up to 127 and two
  above, and by the octets behind it; an array is its prefix and then its elements one after the other
  (`ArrayTrip`, with `ScalarTrip` for the fields of each), by induction over the elements. The enumeration is
  the number of the item in its list.
- `CrcIsRemainder`: the CRC that `crcxmodem.py` computes byte by byte with a table of 256 entries
  is, for texts of any length, the remainder of the division bit by bit that defines it, which `messaging`
  compares on its own lines only. The sixteen digits are followed through the eight shifts of one byte.
- `GarbledDiffers`: two texts that differ in one byte have different CRCs, because the next
  remainder is one-to-one in the remainder and in the byte.

Where a proof needs what a recursive function or a fold yields (`FlattenSeq` over packets, the
response over the frames of a call, the bitmask over the entries of a map), it uses set
induction, `SetInduction`: a set of numbers with 0 and the successors of its members has all of
them. It speaks of a set and not of a predicate, which is what these provers can instantiate.
For these proofs `Crc16` has an exclusive or of its own, by the digits, and `MessageQueues` its
loops as a recursive function (`Bitmask`) and as a step to the next open message (`NextOpen`).

Assumptions are those named in the modules (`ProtocolAssumption`, `ModemAssumption`,
`CrcAssumption`, `CacheAssumption`, `FramingAssumption`, `AsyncAssumption`, `QueuesAssumption`,
`AppAssumption`): types of the constants, that `NoThread` is no thread, and that commands, line ends and other texts are
different bytes; `ReportsAssumption`: what the modem sends unasked is whole lines, as
`data_received()` expects; `DepthAssumption`: Python's limit of recursion, a
thousand calls, has room for a command within a command; `RoomForReport`: a payload may have
the 17 bytes of a report (the code allows 6398); `FixesAssumption`: the sentences of one fix do not
contradict each other, that is, a sentence that comes twice says the same, and the GSV of one fix agree on
each satellite. The modem sends them for one second; `ExchangeAssumption`: the fields of a schema are as their
constructors take them (with numbers of at most 31 bits, see section 7, an enumeration with no more items than its digits can
number, an array of at least one field, none of which is an array), and what the caller assigns has the type
the setter checks. TLC evaluates all of them in the runs of these modules.

**What the proofs showed about the model.** `Carried` used to allow texts, data and arrays of any length the field
allows; the proof of `FieldTrip` failed for lengths of 2^15 and more, which do not fit the fifteen digits
of the long prefix: `encode()` writes a prefix of seventeen digits, of which `decode()` reads
sixteen. The runs do not reach such lengths, and the payload limits keep the code from
them but for arrays whose elements take one or two bits. `Carried` now excludes them.

**Only model-checked:** everything under fairness (`StopEndsEventThread`, the liveness
half of `ImplementsService`: out of the prover's reach), and `MainNeverStuck`, which is
about ENABLED.

## 6. Where code and documentation differ

Shown by a run (and listed as findings): an ERROR without a CRC does not end `command()`;
a line that is unsolicited goes to the responses after the first command;
`disconnect()` leaves a blocked `put()` blocked.

Seen while modelling, and visible as conditions of the properties:

*Threaded client.*
- `await_previous=False` may block: the queue is tested before `put()`.
- `stop()` puts `<exit>` on the responses, but `command()` does not know it: it is read as
  a line of the answer.
- After a time-out that was too short, each following call reads part of the previous
  answer until one finds the queue empty.
- A host with CRC on, talking to a modem with CRC off, times out for ever: the modem's
  ERROR has no CRC line, and only that would end `command()`. `config_init()` does not
  recover from it.
- `crc_enable()` assigns `protocol.crc` after its token is given back.
- When a command is sent while the echo of an earlier one, given up with `AtTimeout`, is still
  to come, that echo is not recognised and runs into the line behind it.
- While one thread fills the versions, another reads a dictionary with one or two keys.
- An empty `<cr><lf>` while a command is pending stays in front of the next line, whose
  text is then neither the echo nor `OK`.
- `_unsolicited()` drops a boot indicator if a command is queued, and a thread that has
  passed the hold-off test sends in spite of a hold-off written after it.
- `power_mode` and `wakeup_period` stay as they were after `config_restore_nvm()` and
  `config_restore_factory()`, and so does a value whose setting was carried out but not
  answered in time. A rejected setting is ignored without a word.
- A failed poll counts as fresh for the hold-off; so does one that raised
  between two assignments, with attributes of two polls. While a first poll is under
  way, another thread is told `None`.
- `network_status`, `satellite` and `beam_id` are not read again after the first poll.
  `beamsearch` tests its attribute the wrong way round (`modem.py` 1098): it returns
  None if there is a state, and raises if there is none.
- `disconnect()` never calls `stop()`: the event thread of each old protocol object
  stays.

*Asyncio client* (line numbers of `asyncio/atcommand_async.py`).
- `retries=1` retries never (385); the count belongs to the client and stays after a
  time-out, so that the next call has fewer retries.
- Where a caller in another thread sets `self._serial` to None between the test and `close()` of
  the `finally` (395-398), the call raises and does not clear the event.
- A bad CRC in the answer to `ATS80?` raises and resets the count of the command around it (376).
- A caller in another thread whose command fails, or is retried, spins for ever on the
  event that its own outer call has set (316).
- A client with `crc` on, talking to a modem with CRC off, raises `AtCrcConfigError` for ever.
- Whatever comes within a second of OK is taken for its CRC, an unsolicited line too.
- `ATS80?` that fails asks for `ATS80?`, without bound; `initialize()` ignores the result
  of its own second try (420-431).
- The first call that ends closes the port under all others.

*Messages.*
- The threaded `message_mo_clear()` returns -1 whatever it deleted: the list it goes
  through ends in `OK`.
- `notification_control_set()` can turn off only the event its last entry names, since it sets
  every other bit that was set; two overlapping calls lose one change.
- Names are cut to 8 characters, or made of the time in seconds: different messages
  may collide.
- A text payload with a `\` that no hexadecimal digits follow is decoded in an endless loop
  (`modem.py` 940-946); a comma in a text cuts it off.
- `lowpower_notifications_check()` of the asyncio client drops the events it does not look for.

*Codecs.*
- Constructors take values as they are, only setters clip: a value that does not fit shifts
  all fields after it.
- An array decodes into its own field objects: all elements read as the last one, elements
  of an earlier, longer message stay, and a later `new_element()` starts from the last
  decoded values. Optional fields of elements have no presence bit.
- A text is encoded with one byte for each character (`string_field.py` 101) and decoded as
  utf-8 (129): from 128 on it raises or reads as other characters.
- An optional text of fixed size is encoded with one bit too many; optional data report one
  bit too many as used. Fixed data cannot be decoded into an object without value;
  empty text or data of variable length cannot be decoded at all. Data of 127 bytes count as
  if their prefix had 16 bits.
- An absent optional field keeps the value of the message decoded before. An encoded
  message of whole bytes is padded by a byte more, which `ota_size` does not count.
- An enumeration that has only its default counts no bits; given a text in the constructor, it
  raises TypeError when read (`enum_field.py` 54).

*Location and examples.*
- The order of `satellites_info` is that in which the GSV sentences name the satellites.
- `Location.serialize()` deletes the object's `satellites_info`.
- A third of all positions are one unit low in the report: degrees are rounded, then cut.
- The threaded `location` swallows every exception; the report is then made of a default
  Location, whose dilution of precision of 99 overflows its 5 bits (as does 32).
- `ConfigSet` raises KeyError (its name is not in the table of message identifiers), and
  `fields(...)` is not callable. The asyncio example's `process_command()` returns None for a
  service not its own, which ends it with TypeError; the names `Message` and `Service` it
  imports do not exist any more. It does not look for received messages while a report
  is queued. Both skip a report when no turn of the loop falls in the second it is due.

## 7. Abstractions

Text is a model value; formatting, logging and the time of day are left out. A CRC line
validates exactly what the modem computed it over (no collisions). Time is the
nondeterministic choice of when a time-out or a hold-off ends. The application
disconnects and connects from one thread. A response is classified by the first line
only where the code does so. The modem is the only external part.

In `AsyncClient`, what a call in another thread does from one await to the next is a single step but at
the start and the end of `_command()`; in the middle it takes a line, or sends, or
adjusts the retry count and the CRC flag as one. The versions are taken to be the three that the modem reports (the
code numbers them if there are more or fewer).

In the models of messages: texts are sequences of character codes (those a caller assigns are below 256), floats their bytes,
degrees are units of the sentences, and a garbled response has one octet changed by one.
Numbers in the codec have at most 31 bits (TLC's integers), which all fields of the
examples have.

**Not modelled**, and why:
- `asyncio/atcommand.py`, `asyncio/modem.py`: work in progress that uses names it does
  not define; no run of it can be compared with a model.
- GNSS settings, temperature, S-registers, trace events, event subscription, satellite and
  beam names, and the operations of the asyncio client that are one `command()` each: the answer
  is returned and nothing is kept; what can go wrong is in the command layer.
- Reading and clearing the notified events (S89), text and hexadecimal forms of a payload:
  one command, or layout.
- `services.py`, `message_definitions.py`, XML export: containers that check names and
  numbers, and layout. Setters that change a field's definition, arrays of arrays and
  the `elements` setter of the codec: not used by anything in the repository.
- Tables and helpers without behaviour; the simulator, which is test equipment.

## 8. Plan

What is left, in this order:

1. A composition of `CrcNegotiation` over `AtProtocol`, showing that the step taken there
   as atomic is one.
2. The notified events (S89) of both clients, over the events lost by a read that clears.
