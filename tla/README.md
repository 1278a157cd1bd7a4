# SEMSIM BCR simulator: TLA+ verification project

SEMSIM simulates the two battery charge regulators (BCR, nominal and redundant)
of a satellite. One Python process receives PUS telecommands as CCSDS space
packets over UDP, executes them on rows of a PostgreSQL database and answers
with packets. Two threads share the database: the *main thread* initialises the
units and polls a switch, the *listener thread* executes telecommands.

Paths below are relative to the repository. `bcr.py` is `units/bcr.py`.

## 1. Inventory

| Component | State it keeps | Operations | Modelled in |
|---|---|---|---|
| Main thread, `semsim.py` | its place in the start-up and the loop | create and fill the database, set `activate`, start the listener, poll `activate`, run the unit models, join the listener | `Semsim`, *main thread* |
| Database, `db_manager.py`, `conf_file/db_config.json` | table `rtos` (`activate`, `hktm`), one table per unit with eight rows | `create_db`, `db_table_creator`, `db_table_filler`, `read_db`, `update_db`, `control_rtos`, `check_rtos` | `Semsim` (`catalog`, `activate`, `state`, `db`), promise in `UnitStore`; refused and broken connections in `DatabaseOutage`; the width of a column in `BcrServices` (`Overflows`) and `MemoryService` |
| Unit models, `bcr.py` 300-338 | none; the rows of their table | initialise seven rows, then `STATE` | `Semsim` (`ReadState`, `InitRow`, `SetState`) |
| PUS services, `bcr.py` 340-767 | none; local copies of rows | PUS 1 reports, PUS 5 events, PUS 6 memory, PUS 8 functions, PUS 17 tests, PUS 20 parameters | `BcrServices` (pure), run step by step in `Semsim`; PUS 6 down to the stored text in `MemoryService` |
| Listener, `tmtc_manager.py` | UDP socket, its connection, the command being handled | connect, check `activate`, receive, decode, acknowledge, dispatch, answer | `Semsim`, *listener thread* |
| Space packet codec, `tmtc_manager.py` 108-150, `rs422_interface.py` 55-138 | none | decode, encode, and the UDP calls around them | `SpacePacket` |
| Client scripts, `tests/`, `test_bcr_event_reporting_PUS5.py` | which packet they wait for | send a command, wait for n packets | `ClientLink`; expectations in `SemsimClients` |
| Deployment, `docker-compose-paysim.yaml` | the database container outlives the process | restart the application | `Semsim` (`Crash`, `Restart`), `SemsimClients` |
| RS422 bridge, `rs422_interface.py` | serial port, bytes of a frame | open a port, read a frame, log or forward it | `Rs422Reader`, promise in `FrameSplitter` |
| Frame codec, `bcr_frame.py` | none | encode and decode a frame: headers, COBS, CRC | `BcrFrame` |
| `configurator.py`, `conf_file/hw_conf_sem.json` | none | read one JSON file | the constant `Models` |
| `units/tm.py` | none | housekeeping, never instantiated | not modelled |

**Interaction.** `main` starts the listener and shares nothing with it but the
database. Each `read_db` and `update_db` opens a connection, runs one statement
and commits, so that the threads interleave between any two calls. A handler
reads the rows it needs, decodes them, changes its copies and writes whole rows
back. The two threads poll `activate` on connections of their own. Clients talk
to the listener over UDP alone. The serial bridge should be such a client, but
its reader ends before it sends anything (see below), and nothing starts it.

**What is hard.** Lost updates between handlers and the unit models; commands
that arrive before their unit is initialised; exceptions, which nothing catches
and which end the listener thread but not the process; kills between the eight
writes of an initialisation; restarts on a database that exists; a shutdown that
waits for a thread blocked in `recvfrom`; sequences of memory commands that drop
data, or fill a column; a database that is away for a while; clients that block
on a packet that is lost or never sent; a serial reader that flushes its input
while the peer goes on sending.

**What makes each component correct.**
- *Unit models*: `STATE = 1` implies that the rows are there (`SealedRows`); an
  initialisation that begins also ends (`UnitInitialised`).
- *Handlers and database*: no update of a row is lost, but for one: CHANGE HEALTH
  to healthy, taken before its unit was initialised, may write the raw row that
  it has read over the initialised one (`UpdateKept`). Without that command the
  tables behave as if each access were atomic (`ImplementsUnitStore`).
- *Listener*: every command for an initialised unit is answered in the right
  order (`CommandAnswered`) with current data (`EventListCurrent`); it is handled
  to the end (`CommandFinishes`); the thread ends for known reasons only
  (`DeathHasCause`).
- *Memory service*: one address per memory at most (`OneAddressPerMemory`), and
  an unhealthy address stays so until something heals it (`UnhealthyKept`). What
  is stored decodes to what was meant, whatever keys the text has
  (`DecodesAsStored`), the text fits (`OverflowHasCause`, `DumpFits`), and when
  it does not, the decoded row says so (`EndsAsModelled`).
- *Shutdown*: at most one command after the deactivation (`LateBound`), and that
  one ends the process (`ShutdownCompletes`); whatever the operator does, no unit
  is left half-initialised (`AllOrNothing`).
- *Outages*: nothing is reported as done that was not stored (`DoneMeansStored`),
  and only the thread that meets an outage ends (`OutageDeathHasCause`).
- *Clients*: two commands never meet in the listener (`NoOverlap`), and a script
  stops for known reasons only (`BlockedHasCause`, `ClientGoesOn`).
- *Packets*: what is encoded is decoded (`HeaderDecoded`, `SpillVisible`,
  `LengthOneShort`), and every answer can be read (`AnswerReadable`).
- *Serial bridge*: no frame is put together from two (`NoSplice`), the reader
  keeps in step (`StepKept`), reads on (`FrameRead`) and ends for known reasons
  (`ReaderFate`). Its frames do not fit the decoder: a short one raises
  (`ShortFrameRaises`), and what decodes of a longer one are the frame's own
  bytes (`DecodedInPlace`), never a command packet (`NeverAPacket`).

`PROJECT.json` lists every hazard at its line with the properties that cover it.

## 2. Modules

| Module | Contents |
|---|---|
| `BcrServices` | The services as pure operators: rows read (`Reads`), rows used by the body (`Accesses`), exceptions (`Fails`), the length of a row's text (`RowText`, `SystemText`, `Overflows`), stores (`Stores`, `NewValue`), messages (`Report`, `Answers`). No variables. |
| `UnitStore` | Abstract specification: what the tables promise a telecommand. Atomic, without threads. |
| `Semsim` | The process: main thread, listener thread, database, environment. Invariants, action properties, liveness, refinement of `UnitStore`. Extends `BcrServices`. |
| `SemsimClients` | What client scripts and deployment expect and `Semsim` does not do. |
| `ClientLink` | A client script, and a link that loses and reorders datagrams, composed with `Semsim`. |
| `DatabaseOutage` | `Semsim` composed with a database server that goes away and comes back. |
| `BlockMemory` | Abstract specification of PUS 6: one block per memory. |
| `MemoryService` | PUS 6 alone, down to the keys and the length of the stored text. Implements `BlockMemory`. |
| `SpacePacket` | A command and its answer as packets: header, length, UDP buffers. |
| `FrameSplitter` | Abstract specification: what the framing of a serial port promises. |
| `Rs422Reader` | Opening a port, starting its thread, the framing loop, against a sending peer. Implements `FrameSplitter`. |
| `BcrFrame` | The frame codec, and the frames that `read_command` passes to it from a line that may damage a byte. |
| `MCSemsim`, `MCScenarios`, `MCClientLink`, `MCDatabaseOutage`, `MCMemoryService`, `MCBridge` | Constants for TLC. `MCScenarios` and `MCBridge` also put several instances into one run, see section 3. |
| `BcrServicesProofs` | Lemmas about the operators of `BcrServices`. |
| `SemsimProofs` | Type correctness, the inductive invariant, and what follows from it; the bound on late commands; the update loop; `Semsim` implements `UnitStore`; what can end the listener thread, what a command leaves in the memory row, what its sender is told, and which updates can be lost. |
| `DatabaseOutageProofs` | What survives an outage of the database. |
| `ClientLinkProofs` | What a script whose counts are right can meet. |
| `MemoryServiceProofs` | The text of the memory row and its length, and the refinement of `BlockMemory`. |
| `Rs422Proofs` | Types, frames, the end of the thread, the step, and the refinement of `FrameSplitter`. |
| `BcrFrameProofs` | What the decoder makes of a frame that still has its start byte. Its first section derives induction over the natural numbers in a form that the provers can instantiate. |
| `SpacePacketProofs` | The header of a command and of its answer, for every value of the fields. |

### State and code

- `catalog` is how far `create_db`, `db_table_creator` and `db_table_filler` have
  come; `activate` the rtos row; `state[u]` the row `STATE` of unit `u`;
  `db[u][r]` its other rows. The tables are filled with the integer 0, which
  decodes to an int and raises TypeError when it is subscripted. A cell is
  `[json, val]`: `json` is FALSE for the raw 0. `val` then is the initial
  dictionary, and no action looks at it.
- `mpc`, `mi`, `ri`: where the main thread is, and its loop indices.
- `lpc`, `inbox`, `tc`, `dict`, `pos`, `outgoing`, `replies`: where the listener
  is (it starts in `connect`, the connection before its loop), the socket's
  buffer, the command it handles or handled last, the copies the handler has
  read, its place in `Reads` and then in `Accesses`, the messages still to send
  and those sent.
- `ready`, `late`, `controls`, `crashes` are history and bounds.

One action stands for one database transaction, one datagram received or one
sent; what the code does between two of them touches only locals. `Acknowledge`
is `cmd_ack_generator` with its bare `except`. `ReadRow` is one `read_db` of a
handler. `Access` is one change of a copy with the `init_bytes_state` that
follows it. `Verify` is `Request_completion_verification`, which nothing guards.
`BodyRaises` and `VerifyRaises` are the exceptions, which end the thread; that of
an `update_db` whose text is longer than the column is one of them (`Overflows`).
Building and filling tables is several transactions in the code and two actions
here: no thread reads the tables in between, and a restarted process fails at
`CREATE DATABASE` before it looks at them.

**`ClientLink`.** `cpc`, `ci`, `got` are the script's loop: each command is sent
from a socket of its own (`send_message`), then `expecting_ack` is called a fixed
number of times on it. `up` and `down` are sets of datagrams on their way, so
that any may overtake any other. A datagram that meets a closed socket or a full
buffer is lost (`Refused`); others are lost at most `MaxLost` times.

**`DatabaseOutage`.** `up` says whether the server takes connections, `broken`
which threads' open connection (the one of `check_rtos`) a stop of the server
has broken. The listener opens its own in `connect`, and a refusal there ends it
before its loop. Each step of `Semsim` that calls the database needs it
(`MainCan`, `ListenerCan`); otherwise the call raises, which `cmd_ack_generator`
catches (`AckFails`) and nothing else does (`MainFails`, `ListenerFails`). A
main thread that raises leaves the interpreter waiting for the listener, so it
goes to `join`.

**`MemoryService`.** A memory's text is two maps, from string keys and from
numeric keys to data, in the order in which `json.dumps` writes them. Decoding
keeps the later of two equal keys. Each command is one step, since the listener
handles one at a time and the row is initialised; `Semsim` has the interleavings.
`Store` is `init_bytes_state`, which raises when the text exceeds the column.
`Semsim` keeps the decoded row alone and counts its text by `RowText`, to which
`LeftBehind` adds the old entry that a LOAD or COPY under a number leaves there;
`EndsAsModelled` says that this is exact.

**`SpacePacket`.** The octets are those of `SpacePacketCommand`, which are the
same in the listener and in the clients but for the type bit, before they are
put into `bytes`; `Encodes` says whether that raises. Shifts and masks are
divisions and remainders.

**`Rs422Reader`.** `buf` is the port's input buffer, `bs` the frame being read,
`rpc` the place of the thread; `frames` keeps what has been read. A byte carries
its number on the wire and what the peer meant by it, neither of which the
reader looks at: it tells 0x55 from the rest. `forwards` is the test for `USB0`
in the port's name. On that port the thread ends after a frame, because
`read_command` compares names (`mid` and others) that are defined nowhere.

**`BcrFrame`.** `line` is what a peer has sent that follows the layout the codec
names: COBS between two start bytes 0x55. `ReadCommand` takes from it what
`read_command` does, from the first 0x55 up to and with the next, which may be
one inside the frame, and calls `decode_bcr_frame` on all of it. `CobsEncode`
and `CobsDecode` are the library's; `CobsFrom` is the decoder as a recursive
function of the place of a block. `encode_bcr_frame` raises on every input,
since 165 does not fit the signed byte of `struct.pack(">b", ...)` (line 25);
its last line, which would append the four characters `0x00` for a delimiter, is
never reached. So each of reader, decoder and encoder takes another byte for the
end of a frame.

### What is abstracted

- Telecommands are well-formed: `WellFormed` says which fields the JSON body has.
  A field that is absent raises KeyError in the handler, as `Fails` does for
  other causes.
- Of a dictionary only what a command can change is kept: the event flags, the
  two keys PUS 8 adds, the memories. The `failure-notice` code of the two
  verification rows is a Boolean; no code ever sets it.
- Of the text of a row only its length is kept: `Text` gives that of a block or
  an argument, `KeyText` that of an address, the same for all of them. The
  constants in `RowText` and `SystemText` are the lengths of the dictionaries'
  own text in `bcr.py`; the other rows never change their length.
- PUS 6 addresses and data blocks are model values. Storing under an int address
  adds a second JSON key with the same text, and decoding keeps the later one,
  which is what `Put` does and `MemoryService` checks (`DecodesAsStored`). `X` is
  the mark of an unhealthy address.
- Of a report's body only the identifiers or the memory data are kept.
- Sequence counts, logging and `sleep` are left out. A thread may be delayed
  arbitrarily, which covers the sleeps.

## 3. What TLC checks

The database starts absent in all runs with `Semsim`.

| Run | Bounds | Shows |
|---|---|---|
| `process` | both units, queue 1, in three scenarios: five datagrams of PUS 5 and an empty one with one operator write and one kill; twelve PUS 6 commands of every subtype on two addresses with two blocks, one of which fits the row once and not twice, and the empty one; PUS 8, once with an argument that does not fit its row, 17, 20, two commands of PUS 5, an unimplemented service, an undefined parameter and a garbled datagram | `TypeOK`, `SealedRows`, `CommandAnswered`, `EventListCurrent`, `UnhealthyKept`, `DeathHasCause`, `ImplementsUnitStore` |
| `lifecycle` | both units, queue 2, one kill, in two scenarios: a PUS 5 command with an unknown identifier and a garbled datagram, two operator writes; CHANGE HEALTH to healthy and LOAD, one operator write | `IInv` (the invariant the proofs use), `LateBound`, `AllOrNothing`, `UpdateKept`, `UnitInitialised`, `CommandFinishes`, `ShutdownCompletes` |
| `link` | a script of twelve commands (PUS 5, 8, and the whole PUS 6 script), both units, one lost datagram, one operator write, one kill | `NoOverlap`, `BlockedHasCause`, `ClientGoesOn` |
| `store` | two memories, two addresses, string and numeric, blocks of five lengths around the width of the column, any sequence of 20 commands | `TypeOK`, `OneAddressPerMemory`, `DumpFits`, `DecodesAsStored`, `OverflowHasCause`, `EndsAsModelled`, `ImplementsBlockMemory` |
| `bridge` | eleven bytes on the wire, frames of zero to two data bytes, both kinds of port; packets of 20 to 106 bytes, so that the first COBS block of 85 bytes ends before, with and after the frame, with start bytes in the packet, in a length byte and in the CRC, and one damaged byte; header fields on both sides of every boundary | `TypeOK`, `NoSplice`, `ReaderFate`, `StepKept`, `ImplementsFraming`, `FrameRead`, `ShortFrameRaises`, `DecodedInPlace`, `NeverAPacket`, `HeaderDecoded`, `SpillVisible`, `LengthOneShort`, `AnswerReadable` |
| `outage` | one unit, two outages, four commands (one row, two rows, none), one operator write, one kill | `SealedRows`, `DoneMeansStored`, `OutageDeathHasCause` |

**Scenarios.** A behaviour of `MCScenarios` picks one scenario and keeps to its
datagrams and bounds, so that the state spaces of the services add up instead of
multiplying. What this leaves out is a command of one service after one of
another. The handlers keep nothing from one command to the next and meet in the
rows alone. PUS 6 shares its row with no other service; PUS 5, 8 and 20 use the
row `systemMgr` and are together in the third scenario. `link` and `outage` mix
services as well. In `MCBridge` a behaviour runs the reader, the codec or the
packets: the reader ends right after its call of the codec, so nothing passes
between them.

Why the bounds are enough. The hazards involve the main thread, one handler and
the rows of one table. A queue of one already lets a command arrive at every
point of the main thread's work, since the listener takes it at once and a next
one can arrive while it works; two are needed for a second command after a
deactivation. Two units show that a command for one leaves the other alone. Two
addresses are the least for one to displace the other, and two forms of an
address the least for a key to occur twice. A kill can fall anywhere, and after
the first one the process never gets past `CREATE DATABASE`, so that more of them
add nothing; two operator writes switch `activate` off and on. Two outages let a
thread survive one and meet the next, or each thread meet one. Eleven bytes hold
three frames and more, so that a frame can be lost in part between two others.
One lost datagram blocks a client, and a second one meets a client that is
blocked.

`Restart` may follow `Crash` for ever, so no state of `process`, `lifecycle` and
the runs with `SemsimClients` is a deadlock and the check for one stays on.
Without a kill, a process that waits for a datagram can always be sent one. The
other runs end where their bounds do: a script that is through or blocked, a
listener that has ended in `MemoryService`, the last byte on the wire, a packet
that has been read, and a process whose outages and kills are used up.

### Disagreements with the repository's tests and deployment

Each of these runs checks one expectation, and TLC shows an execution of the code
that breaks it.

| Run | Expectation | What happens |
|---|---|---|
| `client_acceptance` | a completed command was accepted first | A command handled while rows are written finds the acceptance row raw; the bare `except` hides it, and the completion row is there by then. |
| `client_dump` | three packets for a DUMP of a held address | An unhealthy address sends no report: the PUS 6 script, whose last command marks the address, blocks when it is run again. |
| `client_load` | two packets for a LOAD | CHANGE HEALTH to healthy, handled during the initialisation, writes the raw row back over the initialised one; later memory commands end the listener. |
| `client_parameters` | listed parameters can be requested | 2584 and 2585 are in the range of `systemMgr` and not in its dictionary: KeyError, and the listener ends. |
| `deployment_restart` | a killed process comes back | `CREATE DATABASE` raises on the existing database after each restart. |
| `frame_decoding` | the decoder returns the packet of the frame that the reader passes to it | The frame has its start byte in front, which COBS takes for a length: the decoder raises, or returns other bytes. |

The other disagreements that the modelling met are not runs, since the code
fails on every execution of the lines or since another property already says so:

- `test_hk.py` line 103 reads nine packets after a housekeeping request (service
  type 2); `cmd_processing` sends none but the acceptance (`CommandAnswered`).
- `rs422_interface.py` line 156, "if port is already opened, close it and open it
  again": the variable is unbound there, and `close` raises (`OpenPortRaises`).
- `rs422_interface.py` lines 192-204, "SEND MESSAGE on CCSDS": the comparison of
  `mid` in line 185 raises before, and the first frame ends the reader
  (`ReaderFate`).
- `test_bcr_event_reporting_PUS5.py` line 137 encodes each command into a frame.
  `encode_bcr_frame` packs `STDIF_type.USER_PACKET`, 0xA5, which "will be used
  with SEMSIM" (`bcr_frame.py` line 18), as a signed byte (line 25):
  `struct.pack` raises on every call (`EncodeRaises`), and the script stops
  there.
- `test_bcr_test_of_tests_PUS17.py` line 106 and
  `test_bcr_onboard_param_management_PUS20.py` line 117 read three packets, one
  of them the report. Its subtype is 0 (`bcr.py` lines 625, 695), and
  `cmd_processing` drops such reports (lines 69, 84): both scripts block
  (`Answers`).
- `bcr_frame.py` line 32, "add delimiter": `b'0x00'` is four characters and not
  the byte 0 that ends a COBS frame, and it is not the start byte 0x55 either,
  with which `read_command` ends a frame. Line 25 raises before
  (`EncodeRaises`).

### Fairness

`Fairness` is weak fairness of each thread as a whole and of `Restart`. A thread
holds no lock between two calls and waits only for its own database call, for a
datagram or for the listener's end, all of them disabled steps in the model, so
that the operating system's scheduling justifies weak fairness. The restart
policy justifies that of `Restart`. Clients, the operator and kills owe nothing:
`ShutdownCompletes` needs a datagram in the queue for that reason.

`ClientLink` assumes the same of the two threads, but nothing of `Restart`; that
the script takes its own steps when it can; and that a datagram which is not lost
arrives, or meets a closed socket or full buffer. Losses owe nothing.
`Rs422Reader` assumes weak fairness of the reader's steps alone, each of which
waits for nothing but a byte in the buffer; the peer and the caller owe nothing.
`MemoryService`, `SpacePacket`, `BcrFrame` and `DatabaseOutage` are checked for
safety only.

## 4. What TLAPS proves

For every set of addresses, blocks, arguments and datagrams, every list of units
and every bound, from `BlocksAssumption`, `ModelsAssumption`,
`DatagramsAssumption` and `BoundsAssumption`:

- `TypeCorrect`: `Spec => []TypeOK`, one lemma per group of actions.
- `IInvInvariant`: `Spec => []IInv`. `SealedRows` is not inductive: a handler
  could write a raw copy over a sealed row. `SnapshotFresh` excludes it, but is
  not inductive either: a unit model could write a row that a handler has a
  copy of. `StartupInv` excludes that: while `STATE` is 0, a row holds a
  dictionary exactly when the unit model's index has passed it, so that a unit
  model writes only raw rows, of which no decodable copy exists. It also says
  what the catalog and the threads are at each stage, so that the tables are
  never filled while a handler runs. The three together are inductive.
- `SealedRowsHold`: from `IInv`.
- `UpdateKeptHolds`: from `IInv`, `HandlerInv` and `RawCopyInv`. A unit model
  writes over raw rows alone, by `StartupInv`; a handler whose copy is a
  dictionary writes what it makes of the row as it is, by `SnapshotFresh`; a
  handler whose copy is raw does not raise only if it is a CHANGE HEALTH to
  healthy for a unit that was not initialised, and what it writes is the raw row
  itself (`RawCopyInv`).
- `LateBoundHolds`: from an invariant of its own, `LateInv`. After the first late
  datagram `activate` is 0 and the listener is not at `recvfrom`, and it can only
  get there by reading 1.
- `AllOrNothingHolds`: from `PassInv`. Within a pass the units before the loop's
  index are initialised; between two passes all models are, or no unit is.
- `StoreImplemented`: `Spec => Store!Spec` when no datagram is a CHANGE HEALTH
  to healthy. `InitRow` maps to `InitialiseRow` by `StartupInv`, `SetState` to
  `Seal`, `Access` to `Apply` by `SnapshotFresh`, all else to stuttering.
  Without the condition it is false: see `client_load`.
- `DeathHasCauseHolds`: with `HandlerInv`, which says that a unit found
  initialised stays so during a handler and that each row the handler has
  fetched is a dictionary; then only `Fails` can raise, and each of its cases is
  a property of the command and of the row that it changes, as it is in the table
  (`SnapshotFresh`): an unknown identifier or memory, the checksum of an empty
  block, a text that does not fit the column.
- `OneAddressHolds`, `UnhealthyKeptHolds`: from `ContentInv`, on the tables and
  on the handler's copies alike: a raw cell is the 0 of the start, a
  verification row is the initial one, a memory has one address. A handler's
  write then changes a row by `NewValue` of what the table holds, by
  `SnapshotFresh`, and the unit models write over no mark, by `StartupInv`.
- `CommandAnsweredHolds`, `EventListCurrentHolds`: from `AnswerInv`, which says
  for each place of the listener what has been sent (`replies`) and what is
  still to be sent (`outgoing`) to the sender of a command for an initialised
  unit. The unit stays initialised, so that nothing but the handler writes its
  rows and what the handler copied is what the table holds at its end.

The one exception in `SealedRows` and `DeathHasCause`, `Clobbered`, is the memory
row when such a command can arrive.

Under outages, from the same assumptions, for any number of outages
(`OutageSpec`):

- `OutageSealedRowsHold`: `IInv` is inductive there too. A thread that meets an
  outage writes nothing; a main thread that meets one may leave a half-written
  unit behind in `join`, which is why `Building` does not include that place.
- `OutageDeathHasCauseHolds`: by cases over the steps. The proof found a cause
  that the property had left out, an early CHANGE HEALTH to healthy that makes
  the memory row raw; it now shares `DeathCause` with `DeathHasCause`. The
  listener's own connection before its loop is one of the calls at which it may
  end.
- `DoneMeansStoredHolds`: `ReportInv` says that an access the handler is through
  with is effective: the command would change nothing more in that row. It needs
  `ContentInv`, since some commands are idempotent only on a memory with one
  address, and lemmas on `NewValue` applied twice (`NewValueTwice`).

Of client scripts, for every script and any number of lost datagrams, from
`ScriptAssumption`; TLC evaluates `CountsSuffice` and `CountsExact` of the script
it checks:

- `NoOverlapHolds`: `CountsSuffice => (LinkSpec => []NoOverlap)`. `CountsSuffice`
  says that the script waits for no fewer packets than a command may get
  (`MostPackets`); without it the property is false. `LinkInv` says that the
  command of the socket is in one place, and that while the listener has it the
  packets received or under way are at most those sent, which are less than
  `MostPackets` until the last one.
- `BlockedHasCauseHolds`: for scripts whose counts are exact and that ask for no
  memory report. `CauseInv` counts: as long as nothing is lost, every packet sent
  for the command is received or under way, and a process that has been killed
  ends before its listener starts. With `AnswerInv`, a command that was not early
  gets as many packets as the script waits for. A memory report may be missing
  for what the memory holds, not for what the script says; with such commands,
  `BlockedOrUnreportedHolds` adds this cause. TLC finds that the PUS 6 script, on
  a fresh database, never meets it.

Of the memory service, for every set of addresses and blocks and every length of
them, from `TextAssumption` and the other assumptions of `MemoryService`:

- `MemoryTypedHolds`, `OneAddressPerMemoryHolds`, `DecodesAsStoredHolds`: from
  `MemInv`. With at most one address in a memory, a second key is another form of
  the same address, and the text written last is the one that decoding keeps.
- `EndsAsModelledHolds`: every text that a command hands to `update_db` is one
  with string keys alone, as long as what it decodes to (`StoredPlain`), or has
  one numeric key beside the string key of the old entry, which is what
  `LeftBehind` adds (`NumberText`). A command decodes the row first, so that an
  old entry never outlasts the next store. So the cases of `Fails`, on which
  `DeathHasCause` rests, are all there are for PUS 6.
- `OverflowHasCauseHolds`: from the same lemmas.
- `DumpFitsHolds`: for addresses of at least four digits (`KeyText > 3`), which
  those of the tests are (0x40000000). In shorter ones the report's own text
  outweighs what else is in the row, and a report of 4097 octets or more is
  possible.
- `BlockMemoryImplemented`: `Spec => Blockwise!Spec`.

Of the serial bridge, for frames of any lengths and any number of bytes, from
`WireAssumption`:

- `BridgeTyped`: types, and that the thread runs on an open port alone.
- `ReaderFateHolds`: from `FateInv`, which adds that nothing has been read before
  a port is open, so that the kind of port is settled by then.
- `NoSpliceHolds`: from `SpliceInv`. `NoSplice` alone says nothing of a port that
  was never opened and of an empty `bs`; `Places` adds that.
- `FramingImplemented`: `Spec => Framing!Spec`, with `bs \o buf` for the pending
  bytes. `Partial` says what has been read of a frame: a delimiter first, and no
  other before the end. A byte that arrives maps to `Receive`, one that is
  skipped to `SkipNoise`, a handled frame to `TakeFrame`, and the collection of
  a frame to stuttering.
- `StepKeptHolds`: from `PhaseInv`. What the peer has yet to send (`PeerInv`) and
  what is in the buffer (`WireInv`) alternate opening and closing delimiters;
  `StepInv` says that the next byte for the reader opens a frame just if the
  reader is in step, for each place of the reader.

Of the space packets, for every field value and length, from `FieldsAssumption`
and `ReportAssumption`, by the invariant `ExchangeInv` that carries what the
encoder has put on the wire from one stage to the next:

- `HeaderDecodedHolds`, `SpillVisibleHolds`, `LengthOneShortHolds`: arithmetic of
  the octets, in lemmas on division and remainder by 256, 64, 32 and 8.
- `AnswerReadableHolds`: the decoded APID is below 2048, so that the listener's
  own packets always encode; the length by `ReportAssumption`. That assumption
  is the bound `DumpFits` checks for the longest report, and it is proved for
  addresses of at least four digits alone, so that the half of `AnswerReadable`
  that speaks of packets received whole holds for those.

Of the frames, for packets of every content of up to 240 bytes, from
`CodecAssumption`. What a recursive function computes for every input needs an
induction, and the library's induction theorems take a predicate as a parameter.
`SetInduction` takes the set of the numbers for which the predicate holds
instead: that can be instantiated. It follows from the well-foundedness of `<`
on `Nat`.

- `CobsFromFacts`: the function that `CobsFrom` chooses exists, since each place
  is decoded from later places alone (`DecodeBlockLocal`), so its equations
  hold.
- `ShortFrameRaisesHolds`, `DecodedInPlaceHolds`, `NeverAPacketHolds`: from
  `FrameInv`, which says that what is on the line has bytes alone and fewer than
  255 of them, and that a frame that has been read begins with 0x55.
  `EveryPlaceFits` is an induction on the place of a length byte from the end:
  whatever the bytes are, each length byte but the first gives way to the 0 it
  stands for, or decoding raises; it needs that no length byte is 255 and stands
  for no 0. `FirstBlock` says that the first block has 84 bytes and no 0, which
  leaves no room for a shorter frame, nor for the zeros of a command packet's
  header in the place where they would have to be.

**Only model-checked:** the liveness properties `UnitInitialised`,
`CommandFinishes`, `ShutdownCompletes`, `ClientGoesOn` and `FrameRead`, since
the prover has neither fairness nor ENABLED; and that the script of `link`,
which asks for memory reports, blocks for the causes of `BlockedHasCause` alone.

## 5. Plan

All modules that were planned are there, and every safety property that a
passing run checks is proved, the two of the column's width in `MemoryService`
included. What is left is the converse of `client_*`: for each expectation of a
test that the code does not meet, a condition on commands or schedule under
which it does, proved from `AnswerInv`.

## 6. Not modelled

- `configurator.py`: one JSON file read once, without a state; its result is the
  constant `Models`.
- `units/tm.py`: instantiated nowhere, and it reads tables that nothing creates.
- The `hktm` row, `drop_db`, `create_rtos` and `read_entire_table_db`: no caller
  in the running program.
- The branches of `read_command` for the message identifiers, lines 185-316, and
  `write_command`, which only they call: the first of them raises, since `mid`,
  `lid`, `pld` and `pdu_cmd` are defined nowhere.
- Telecommands whose JSON body lacks a field or has one of another type.
- The contents of parameters and reports that no command changes; image building.
