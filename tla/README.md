# Verification of GarageOpenerSpark

TLA+ models of the garage door opener that runs on a Spark Core
(`core-firmware/libraries/garage` and the firmware under it), TLC
configurations that check them on small instances, and TLAPS proofs of their
main safety properties for every instance. Paths below are relative to `src/`;
`garage/` stands for `core-firmware/libraries/garage/`.

Check a module with `tlc -config <run>.cfg <Module>.tla`, a proof with
`tlapm <Module>Proofs.tla`. `PROJECT.json` lists runs, mutants, findings,
hazards, theorems and, for every definition, the lines it translates.

## 1. The system

| component | state | operations | talks to |
|---|---|---|---|
| `garage/Timer.h` | state, trigger time | `start`, `isElapsed`, `isRunning` | `millis()`, a 32-bit counter that wraps |
| `garage/Garage.h` | `doorTravelTimer`, relay pin | `processMessage`: OPEN, CLOSE, PRESS_BUTTON, GET_STATUS | called by the secure channel; relay to the opener's button, reed switch on the door |
| `SparkSecureChannelServer.h` | receive and send buffers, `msgState`, conversation token and timer | `loop()`: read a length, read a body, check its HMAC, issue a challenge or execute a command | reads and writes the channel, calls the garage, asks for nonces |
| `WiFiCommunicationChannel.h` | the client, `clientConnected`, `pingTimer` | `open`, `isClientConnected`, `read`, `write` | TCPServer, TCPClient, WiFi |
| `spark_wiring_tcpserver.cpp`, `spark_wiring_tcpclient.cpp` | socket numbers, a 128-byte buffer | `begin`, `available`, `connected`, `read`, `stop`, `write` | the CC3000 module |
| `SparkRandomNumberGenerator.h` | seed, index in external flash | `generateRandomChallengeNonce`, seed rotation | external flash |
| `spark_wiring_eeprom.cpp` | two flash pages | `EEPROM_Init`, read, write, page transfer, format | flash controller |
| `spark_wlan.cpp`, `spark_wiring_wifi.cpp` | flags set by events of the module, watchdog, count of failed connections | `SPARK_WLAN_Loop`, `WLAN_Async_Callback`, `WiFi.on`, `off`, `connect`, `disconnect`, `listen` | CC3000 driver, cloud |
| `main.cpp` | flags, USB ring | main loop, SysTick, USB serial | everything |
| `core-communication-lib` (`spark_protocol.cpp`) | AES state, queue, ping and chunk timers, event limits | handshake, `event_loop`, functions, variables, firmware update | the cloud |
| `cc3000_spi.c`, CC3000 host driver | state of the bus, receive buffer, awaited opcode, free transmit buffers | `SpiOpen`, `SpiWrite`, DMA and pin interrupts, `hci_event_handler`, `wlan_start`, `wlan_stop` | WiFi module, external flash (same bus) |

One thread runs `main`: `SPARK_WLAN_Loop()`, then the application's `loop()`,
which only calls `SecureChannelServer::loop()`. Everything below is a call on
that thread, and every call may block: for a second in the relay's `delay()`,
for 22 seconds in `open()`. What runs concurrently is the world (the door, the
clients, the network, the power supply) and the interrupt handlers.

The hard behaviour, each entry with its line in `PROJECT.json` under `hazards`:

* **time**: a wrapping counter compared by signed subtraction, timers that only
  change when polled, two polls of one timer in one call;
* **interleaving**: the door moves between two reads of its sensor; a client
  comes, sends and hangs up between two calls of the channel; two interrupt
  handlers and the main thread share one SPI bus, its state and one buffer, with
  the flash on the same bus; events of the module set and clear the flags of the
  main loop between any two of its steps;
* **framing**: requests arrive in pieces, several at once, from clients whose
  connection has ended since, into a buffer that cannot hold two;
* **failure**: WiFi goes and comes back while nobody looks, sockets cannot be
  opened, power is cut between an erase and a write, flash operations fail;
* **ordering**: an answer that arrives before anybody waits for it, or after its
  command was given up; a flag set for a socket that an event has just closed;
* **liveness**: one client at a time and no timeout for it; a server that falls
  silent; an update that stops the application and might never end; a thread that
  spins until an interrupt changes a variable; a module that is never restarted.

What makes each part correct: the garage never presses the button during a move
it started and never claims a rest it cannot know of; the channel executes
exactly the commands of the newest conversation while that is young; the link
hands over whole requests in order and answers go to who asked; seeds do not
repeat; a stored variable survives; only a whole application is installed, and an
update that stalls ends; the bus has one owner, every command of the driver gets
no other's answer and returns; WiFi that is lost comes back, and WiFi that is off is
quiet.

## 2. Modules

| module | models | uses |
|---|---|---|
| `Timer` | `garage/Timer.h` as operators on a timer record and the counter | |
| `Garage` | `garage/Garage.h`, with the door, the opener and the wall button as environment | `Timer` |
| `Conversation` | `SecureChannelServer` above the framing, with clients and a network that loses, delays, reorders and repeats | `Timer` |
| `MessageChannel` | abstract: what the link promises to the code that handles requests | |
| `SecureLink` | `SecureChannelServer::loop` as a reader of bytes, the WiFi channel, TCPServer, TCPClient; implements `MessageChannel` | `MessageChannel` |
| `SeedRotation` | the seeds of the random number generator | |
| `Eeprom` | EEPROM emulation | |
| `Cloud` | `SparkProtocol::event_loop` and the firmware update, with the flags of `spark_wlan.cpp`, `FLASH_Begin`, `FLASH_Update` and `FLASH_End` of `hw_config.c`, the watchdog in `main.cpp`, the events of the CC3000 and a server | |
| `Wlan` | `SPARK_WLAN_Loop` and `WLAN_Async_Callback` of `spark_wlan.cpp`, the `WiFi` calls of `spark_wiring_wifi.cpp`, the connection part of `spark_utilities.cpp`, the main loop and the button in `main.cpp`, in every `SYSTEM_MODE` | |
| `Radio` | `cc3000_spi.c`, the bus lock of `spi_bus.c`, the chip selects in `hw_config.c` and `sst25vf_spi.c`, and of the host driver `hci.c`, `evnt_handler.c`, `wlan.c`, `socket.c`: commands and their answers, patches, flow control | |
| `MCSecureLink` | two clients with requests of different length | `SecureLink` |
| `TimerProofs`, `GarageProofs`, `ConversationProofs`, `SecureLinkProofs`, `CloudProofs`, `RadioProofs`, `WlanProofs` | the theorems about the module of that name | |
| `FlashProofs` | the theorems about `Eeprom` and `SeedRotation` | both |

Names are those of the code where TLA+ allows it. Operators named
`X_Something` are mutants: what a plausible bug would make of `X`. They are
used by no specification; `PROJECT.json` says which property each one breaks.

**Timer.** `HalfRange` stands for 2^31. `IsElapsed` is the answer of
`isElapsed()`, `Polled` its effect. `TracksAge` relates the counter to the true
time since `start()`, which is kept in a history variable `age` by the modules
that use timers.

**Garage.** `pc` is where `processMessage` is. A command takes several steps
because the sensor is read up to three times (`OpenOrClose`, `PressIfWanted` or
`LeaveDoorAlone`, `Respond`) and because of the `delay()` between `StartPress`
and `EndPress`. `Tick` moves the clock and the door and may come between any two
steps. A `delay()` may return late, never early. The opener starts a resting
door and stops or reverses a moving one. `mover` records who set the door in
motion, for the properties only.

**Conversation.** A transmission is a record; the HMAC of challenge *n* is the
number *n*, so a token is known only to a client that got the challenge. `loop()`
is `EnterLoop` (first poll of the timer), then one of `ReadNothing`,
`IssueChallenge`, `ExecuteCommand`, `RefuseCommand` (second poll), then `Write`;
time passes between them, since `read()` may re-initialise WiFi. `Reboot` sets
the clock back and forgets everything; transmissions on their way survive it. `served`,
the token under which a command was executed last, is history.

**SecureLink.** A connection is a stream of requests of one length, and a byte is
its position in the stream: framing errors then are positions that are not the
beginning of a request. `frame` is where the length came from. `Authentic` is the
HMAC check: header and body are one request's, read whole. The length read at
any other position is arbitrary (`Garbage`). Every `read` and `write` first runs
`isClientConnected`, which is the steps `CheckWiFi` or `Reconnect`, then
`KeepClient` or `SeekClient`; the world acts in between. The stale buffer of a
client that is gone, the socket number that outlives a restart of the module, and
`transmissionLength - 2` as an unsigned number are there as in the code. A ping that
fails leaves the module off (`CheckWiFi`), and the call goes on: WiFi is `"off"` if
the event of the disconnection has cleared its flags, and otherwise `"stopped"`, with
`WiFi.ready()` true until the round of `SPARK_WLAN_Loop` before the next read
(`WiFi_ready`). Whoever calls the driver of a module that is off (`CallsDriver`) gets
stuck in `SpiWrite` (`GetStuck`); `Restart`, which may come then, is the fault that
the zeroed buffer of commands may cause.

**SeedRotation.** A nonce is the seed it comes from and its number. Every flash
operation is a step and power may be cut before each. `SRInit`, `SRNext`, `SRSpec`,
`SRVars`, `SRTypeOK` and `SRPowerCut` have their prefix because `FlashProofs` extends
`Eeprom` too.

**Eeprom.** `call` is the function that runs, `at` what it does next and `index` the
variable of a transfer it is at (`EepromAddressIdx`; -1 while the write that caused the
transfer is put into the new page first). `FlashOperation` is the next operation of the
flash controller: `MarkReceive`, `PutData`, `PutAddress`, `EraseOld`, `MarkValid` or the
first one of `EEPROM_Format`. `CopyVariable` looks at one variable, and `CopyEnds` leaves
the loop. `GiveUp` is an error return, `PowerCut` a reboot at that point, which enters
`EEPROM_Init` where the status of the pages sends it (`Repair`, `Finish`, `Resume`).
Which page is read or written is looked up in each step, as in the code. `allowed` is what
each variable may read as: the value written last and, if that write was cut short, the
one before.

**Cloud.** `EventLoop` is one call of `event_loop()`: `Receive` of one whole
message, or, with nothing to read, `RequestChunk`, `Ping` or `PingTimeout`. Any
send may fail, which ends the connection (`Unlinked`); an action has one outcome
for each place where it may. Flash is an array of cells and the image a sequence of
chunks; a cell that was written holds the number of the image's cell that is in it.
`installed` is what the bootloader was last told to copy. A chunk is saved by
`WriteChunk` or, when it cannot be read back, by `BackOff`, at any write and any number
of times; either way `SaveFirmwareChunk` feeds the watchdog. `shortFailed` is history:
since the update began, the write of a last chunk that is shorter than the others
failed in a sector other than the first, where the division in `BackOff` goes wrong
(section 4). `Tick` is `millis()` and
the SysTick handler, so the watchdog fires between any two steps. The events of the
CC3000 come as `LinkLost`, and inside the two calls in which they matter: the
handshake, where `SPARK_CLOUD_CONNECTED` is set after the socket is gone, and
UPDATE_BEGIN, where `SPARK_FLASH_UPDATE` is. The server is external and honest: it
sends a chunk, waits, and does what the answer says; it may fall silent at any
moment. Commands, variables and events are messages of type `other`. The garage
application runs in `SYSTEM_MODE(MANUAL)` and does not connect on its own; the
module is the firmware's default, in which every round of the main loop calls
`event_loop()`.

**Wlan.** `at` is the place in `SPARK_WLAN_Loop` or the application; the events of
the module (`Event`) are interrupts and come between any two steps. What the code
does without a pause is one step, and a step is split where an event in between
makes a difference: the watchdog is cleared before the flags (`BeginReset`,
`ClearFlags`), armed before the start (`BeginStart`, `Start`), and the flags of the
cloud are set after the call that earned them has returned (`ConnectSucceeds` and
`SetSocketed`, `HandshakeSucceeds` and `SetConnected`). The flags are what the
firmware believes; `link` is what the module does and `alive` whether the session
with the cloud still works. What happens inside a session is `Cloud`'s subject:
`ServeGivesUp` is the end of one for any reason, and its fairness is
`Cloud!SilentServerIsNoticed`. The watchdog is off, armed or due, and once armed it
runs out between any two steps. `late` is history: after a reset and before the next
start, a reset was asked for or the watchdog was armed. A module that listens for smart config
is off its network (external). Left out: `WLAN_MANUAL_CONNECT`, mDNS, the address
itself, the list of credentials.

**Radio.** `pc` is the place of the main thread. The driver waits in loops that
look at a variable an interrupt changes; each such loop is a place of its own
(`begin`, `first`, `grant`, `write`, `await`, `handle`, `consume`, and `select`,
`release` of the flash), and interrupts come between any two steps. A transfer is a
Boolean: what it carries is known from `ulSpiState`, as it is to
`SPI_DMA_IntHandler`. `pending` and `listening` are the interrupt of the IRQ pin,
which an edge requests and `SpiPauseSpi` keeps back. The module is external: it pulls
its pin when it has a message or grants a write, lets it go when deselected and pulls
it again if it has more; it answers commands in order and tells of events at any time.
Messages are their kind and, for an answer, their opcode; a patch is one write. When
the driver reads a module that has nothing to say, it reads garbage of any length,
zero included. The answer to a packet may say that its socket is inactive (`NotSent`);
`Unsolicited` is the interrupt's test, which drops that answer even when it is awaited.
A socket that is not active and `slTransmitDataError` before a packet is sent are
outcomes of `Refuse`; a timeout of `hci_event_handler` may always happen. `SwitchOn` waits for the
end of a transfer since the pause of 300 ms in `SpiOpen` is longer than any. `mishaps`
is a history of what went wrong since the module was switched on: `cutOff`, a transfer
interrupted by `SpiOpen` or `wlan_stop`; `hasty`, an edge of the old module taken for
the boot of the new; `missed`, an answer thrown away because nobody awaited it yet;
`notSent`, one thrown away because it says that the socket is inactive; `gaveUp`, a
timeout. The properties say what holds without them, and that nothing else
is needed for the driver's assertions to fail.

## 3. Runs

| run | instance | what it shows |
|---|---|---|
| `garage` | counter of 12 ticks, pulse 1, estimate 3, door 4, wall button | `NeverInterruptsRemoteMove`, `RestingStatusIsTrue`, `PromptPollSeesElapsed`, `CommandCompletes` |
| `conversation` | counter of 8 ticks, 2 clients, duration 2, 2 challenges, 2 transmissions under way | `OnlyFreshCommands`, `FreshCommandsAreServed`, `ConversationEnds` |
| `conversation_token` | the same | violates `OneCommandPerConversation` |
| `secure_link` | requests of 4 and 3 bytes, buffer of 4, lengths 3 and 6 read from the middle of a request, 2 requests on each connection | `DeliversMessages` (implements `MessageChannel`), `CarefulClientIsServed`, `DepartedClientIsLetGo` |
| `seed` | 6 seeds, two of which begin with a zero word, 4 boots, 5 rotations | `NoNonceTwice`, `NoNonceTwiceInABoot` |
| `eeprom` | 2 variables, pages of 2 slots, 2 values, 1 failing flash operation | `RemembersUndisturbed`, `ReadyAfterBoot` |
| `eeprom_loss` | pages of 3 slots, no failing operations | violates `RemembersAfterPowerCut` |
| `cloud` | 3 chunks of 2 cells and a last one of 1, sectors of 4 cells, ping after 2 ticks, limits of 1 and 1, watchdog of 3, 3 messages under way in each direction; failing writes are not bounded | `AcknowledgedIsStored`, `InstalledIsWhole`, `ProgressAgrees`, `UpdateIsWatched`, `SilentServerIsNoticed`, `UpdateEnds` |
| `cloud_short` | the same | violates `ErasedIsSentAgain` |
| `wlan` | 2 failed connections, the value in the code; nothing else is bounded | `AsleepIsQuiet`, `FailuresReset`, `LostModuleIsRestarted`, `StaleAddressIsNoticed`, `ModuleIsStarted`, `DeadSessionIsDropped` |
| `wlan_reset` | the same | violates `ResetStartsAgain` |
| `radio` | 1 ordinary command besides those of `wlan_start`, `send` and `recv`, 2 transmit buffers, 2 messages in the module | `OneChipSelected`, `PanicHasACause`, `AnswersMatch`, `BuffersAddUp`, `CallsReturn`, `OffersAreTaken` |

Each passing run also checks its type invariant; `PROJECT.json` gives, for each
property, a mutation of the code that breaks it under the same instance.

Why the bounds are enough:

* The counter wraps several times over in `garage` and `conversation`: the clock
  is not bounded, only its width is, and all that matters is the order of period,
  half range and range, which the instances keep. The gap between two calls of
  `loop()` is up to half the range minus the duration, the largest for which the
  proof's argument is tight.
* The door takes exactly pulse plus estimate, the largest `DoorFits` allows.
* Two clients and two challenges give a conversation that is replaced by another
  client's; two transmissions under way give every reordering.
* In `secure_link` the buffer holds the longer request exactly and two shorter
  ones not: requests are complete, cut off, and straddle the end of the buffer.
  Length 3 fits and is wrong, length 6 does not fit (`MaxLength` is 6). A second
  client finds what the first left behind; a third would find nothing else.
* Two variables and two slots, the fewest slots that `EepromAssumption` allows: when both
  variables are stored a transfer fills the new page to its last slot and the next write
  begins another. A third slot, as in `eeprom_loss`, lets writes come between two
  transfers. Values differ so that a stale one is seen. Writes and power cuts are not
  bounded.
* 5 rotations are less than a round of 6 seeds, as 2^16 seeds are more than the
  device will take; the index still wraps because it may start anywhere.
* In `cloud` two chunks lie in each of two sectors: a failed write takes back one
  acknowledged chunk or none, in the first sector or in a later one. The last chunk is
  shorter and does not begin its sector: when its write fails, the division goes wrong
  and a chunk that was acknowledged is erased. The limits keep the order of 15, 10, 3
  and 30 seconds as far as strict comparison allows. `ChunkSize` divides `SectorSize`,
  as 512 divides 4096. Updates, failing writes, resets, lost links and ticks are not
  bounded.
* `Wlan` has no bound besides its limit, and the limit is the code's; starts,
  resets, events and calls of the application come in any number and order. Two
  failures are the fewest with which one count of two can pass the limit.
* In `radio` the ordinary command, `wlan_start`'s two, `recv` and `send` give
  answers with every other opcode under way; a second ordinary command would only
  be another opcode. Two messages let an event come before an answer and data be
  queued behind one; the bound stops the module from saying more on its own, not
  its answers. Two buffers give a packet that is sent while another is under way.
  Transfers, restarts and timeouts are not bounded.

Deadlock is checked except in `seed`, whose bounds on boots and nonces end every
behaviour, and in `radio`: after a mishap the device may really hang (section 4), and
`CallsReturn` says that it does so only then.

**Fairness.** `WF(Tick)`: time passes. `WF` of the handler, of `Loop`, and of
`Channel \/ Server`: the main loop (`main.cpp:172`) calls `loop()` for ever, and a
call that has begun goes on. No fairness is assumed of clients, the network, the
WiFi module, the wall button or a power cut. `CarefulClientIsServed` is
conditional on WiFi not failing meanwhile. Nothing
is assumed of `Restart`: a device that is stuck in a call need not fault.
In `Cloud`, `WF(Tick)` and `WF(EventLoop)`: SysTick never stops, and the main loop
calls `event_loop()` in every round in which the socket is there. The server need
not do anything. `UpdateEnds` excepts updates that are begun again for ever, which is
the server's doing, and writes that fail for ever (`StuckUpdateEnds` in section 4). In `Wlan`, `WF(Round)`: the main loop goes on; `WF(WatchdogExpires)`:
time passes; and strong fairness of giving up a dead session, because rounds in which
`event_loop()` is called add up to its time limit even if others come in between.
Nothing is assumed of events, the application, or whoever should finish a smart
config. In `Radio`, weak fairness of both interrupts, of the thread in the middle of a
call, of the module's booting and signalling, and of the restart after a panic; strong
fairness of `Reserve`, `sFLASH_CS_LOW` and `ReleaseBus`, which are loops that look
again and again (each look takes microseconds, the module's moments between two
messages milliseconds). Timeouts have none: no property relies on one.

## 4. What the code does otherwise than it says

Four runs show it:

* `conversation_token`: `README.md:58` has the server invalidate the token after a
  command. It stays valid for the 5 seconds of the conversation
  (`SparkSecureChannelServer.h:366-376`, as the comment at 144-154 says), and a second
  command, or the same one sent again, is executed. `OnlyFreshCommands` and
  `FreshCommandsAreServed` say what the code guarantees instead.
* `cloud_short`: when the last chunk of an update is shorter than the others and its
  write fails, `FLASH_Update` erases the sector and divides the address by the short size
  (`hw_config.c:1356`). The index it returns is too large, the chunk is answered with OK,
  and an image is installed in which the whole sector is erased. `shortFailed` marks the
  case in `AcknowledgedIsStored`, `ProgressAgrees` and `InstalledIsWhole`, which hold
  without it. In the first sector the index is 0 whatever the divisor.
* `wlan_reset`: what asks for a reset while the module is not started keeps it from being
  started. The first branch of `SPARK_WLAN_Loop` is taken, which does nothing to such a
  module (`spark_wlan.cpp:376-378`), although line 512 logs "Resetting CC3000". There are
  two ways into it. An address event between the clearing of the flags and the cloud part
  of the same round lets the connection be tried; when it fails, `SPARK_WLAN_RESET` is set
  with `SPARK_WLAN_STARTED` clear: the counterexample that TLC prints. Or an event arms
  the watchdog after `CLR_WLAN_WD`, and it runs out before the start. `ModuleIsStarted`
  excepts both (`late`).
* `eeprom_loss`: `EEPROM_Init` runs before the table of addresses is filled, and
  completes an interrupted page transfer with variable 0 only.

Six more statements stand in the modules, each with the line that makes it. TLC refutes
each when it is the only `PROPERTY` in the configuration named:

* `Garage!LatePollSeesElapsed` (`garage.cfg`): a timer that nobody polls for 24.8 days
  after it has run out is again taken for running (`Timer.h:40`), and the door is reported
  moving until the counter has come round. `TimerProofs!ElapsedIsAccurate` has the bound.
* `SecureLink!ListensAgain` (`secure_link.cfg` with `SocketFaults = FALSE`): `open()` gives
  up after 20 seconds. If WiFi comes up right after, the server calls `accept()` on the
  number of a socket that was closed with the module
  (`WiFiCommunicationChannel.h:178`). Nothing repairs it: if the ping timer runs, the pings
  are answered, because WiFi works.
* `SecureLink!PingRepairsWiFi` (`secure_link.cfg`): a ping that fails switches WiFi off, and
  `isClientConnected` goes on (`WiFiCommunicationChannel.h:145`), usually with
  `WiFi.ready()` still true, to accept a client, to read or to send; or the next call
  closes the client's socket. The module is off, and `SpiWrite` waits for it for ever,
  unless the buffer that `wlan_stop` has zeroed faults first, which restarts the device.
  WiFi is started again only when the driver is not called meanwhile, as when there is no
  client and the event came in time.
* `SeedRotation!NextSeedAfterReboot` (`seed.cfg`): a power cut between the erase and the
  write of the seed index starts the seeds over (`SparkRandomNumberGenerator.h:121`).
  `NoNonceTwice` excepts it (`torn`).
* `Cloud!StuckUpdateEnds` (`cloud.cfg`): `Spark_Save_Firmware_Chunk` feeds the watchdog
  before it writes (`spark_utilities.cpp:626`). A sector that cannot be written has the
  server send its chunks again and again, and the application stands still for ever.
  `UpdateEnds` excepts it.
* `Radio!AwaitedIsPassedOn` (`radio.cfg`): an answer to a packet that says the socket is
  inactive is unsolicited to the interrupt even while `simple_link_send` waits for it
  (`evnt_handler.c:756-764`). The call returns when `cc3000__event_timeout_ms` is over, and
  never if that is 0, its default. `CallsReturn` excepts it (`notSent`).

Remarks on the garage and the cloud; nothing in the repository says otherwise, or
no run is spent on it. A transmission of more than 128 bytes is never accepted, because
`TCPClient` buffers no more, although `MAX_TRANSMISSION_SIZE` is 256. And a client
that stays connected keeps everybody else out: the timer against it is commented
out (`WiFiCommunicationChannel.h:61-64`). A handshake resets `updating` but not
the state of the ping, so that a new connection may be given up at once
(`spark_utilities.cpp:719`). And WiFi that is lost while UPDATE_BEGIN is acknowledged
leaves `SPARK_FLASH_UPDATE` set without a connection, until the watchdog resets.

Remarks on `Wlan`:

* `WiFi.off()` in a reset comes after `SPARK_WLAN_STARTED` was cleared (line 385)
  and so does nothing; the module runs on and its events are still handled.
* `WiFi.off()` followed by `WiFi.on()`, `WiFi.connect()` or `Spark.connect()` in the
  same `loop()` leaves the module off, as those look at flags the off has not cleared
  yet; likewise `WiFi.disconnect()` and `WiFi.connect()` before the event.
* `Start_Smart_Config` clears `WLAN_DHCP` before it calls `WiFi.disconnect()`, which
  then does nothing; a wish for smart config that its own `WiFi.connect()` raises is
  cleared again at its end (line 239).
* `SPARK_WLAN_Setup` starts the module without a watchdog, and an address that is
  refused after one was given is not watched: `LostModuleIsRestarted` leaves those out.
* A network that comes and goes arms the watchdog anew each time, for ever. The deadline
  `millis() + x` may be 0, which means off, and wraps, while `WLAN_WD_TO` compares with
  `>=` (lines 80-83); the model's watchdog has no number.
* An address that changes between two rounds is not read again (lines 438-449).

Remarks on `Radio`:

* `usRxEventOpcode` is set when `SpiWrite` has returned (`evnt_handler.c:954`). An
  answer that is read before that is discarded as unsolicited, and its command times out
  (`missed`).
* A module started again without `wlan_stop`, which is what a reset in `Wlan` does, may
  cut a transfer off in `SpiOpen`; its DMA interrupt then finds `POWERUP` and panics
  (`cutOff`). An edge of the old module between `POWERUP` and the switch-off has the
  first write go to a module that does not hear it (`hasty`).
* A length of zero read from a module that was switched off leaves `READ_PROCEED` with
  the module selected and the bus taken. A flash access then spins for ever, with the
  hardware watchdog kicked by SysTick.
* A timeout while waiting for announced data panics (`evnt_handler.c:266-268`). After any
  other, the late answer stays in the buffer and is overwritten, or taken for the next
  command's of the same opcode; if it was the number of buffers, that stays 0
  (`gaveUp`). `HostFlowControlConsumeBuff` gives up at once when
  `cc3000__event_timeout_ms` is 0.

## 5. Proofs

All theorems hold for every value of the constants that the named assumptions
allow; the main ones:

| theorem | statement |
|---|---|
| `TimerProofs!ElapsedIsAccurate` | a running timer is elapsed exactly when its age has reached its period, while the age is below period plus half the counter range |
| `GarageProofs!TypeCorrect`, `NoInterruption`, `RestingStatus`, `PromptPoll` | `TypeOK`, `NeverInterruptsRemoteMove`, `RestingStatusIsTrue`, `PromptPollSeesElapsed` |
| `ConversationProofs!TypeCorrect`, `Freshness`, `Service` | `TypeOK`, `OnlyFreshCommands`, `FreshCommandsAreServed` |
| `SecureLinkProofs!TypeCorrect`, `Implementation` | `TypeOK`, `DeliversMessages`: `SecureLink` implements `MessageChannel` |
| `CloudProofs!TypeCorrect`, `UpdateWatched` | `TypeOK`, `UpdateIsWatched` |
| `CloudProofs!ProgressIsAgreed`, `AcknowledgedStored`, `WholeInstalled` | where whole chunks fill a sector (`FlashFits`): `ProgressAgrees`, `AcknowledgedIsStored`, `InstalledIsWhole` |
| `FlashProofs!SeedTypeCorrect`, `NoRepetition`, `NoRepetitionInABoot` | `SRTypeOK`, `NoNonceTwice`, `NoNonceTwiceInABoot` of `SeedRotation` |
| `FlashProofs!EepromTypeCorrect`, `ValuesRemembered`, `RoomForTransfer`, `BootLeavesPage` | `TypeOK`, `RemembersUndisturbed`, `TransferHasRoom`, `ReadyAfterBoot` of `Eeprom` |
| `RadioProofs!TypeCorrect`, `BusIsOwned`, `NoBufferTwice`, `StopsForACause`, `AnswersAreOfTheCommand` | `TypeOK`, `OneChipSelected`, `BuffersAddUp`, `PanicHasACause`, `AnswersMatch` |
| `WlanProofs!TypeCorrect`, `SleepIsQuiet`, `FailuresAskForReset` | `TypeOK`, `AsleepIsQuiet`, `FailuresReset` |

*Timer.* The difference between the counter and the trigger is the true age minus
the period up to one turn of the counter (`TracksAge`); `start()` establishes it,
a tick keeps it (`StartTracksAge`, `TickTracksAge`), and the signed reading of
that difference is the difference itself while it is below half the range.

*Garage.* Neither action property is about states, and neither sensor nor timer
knows of the move. The inductive invariant `IInv` adds: the timer tracks the age
(`TimerInv`); the relay is closed exactly while the handler waits (`RelayInv`);
and a remote move still has at most `DoorTime - held` ticks to go while the relay
is closed, and at most `DoorTime - Pulse - age` afterwards, with the timer running
(`TravelInv`). With `DoorFits` (`DoorTime <= Pulse + Estimate`, the one assumption
about the world: the estimate covers the door) a moving door means a timer that
has not elapsed, so any status read is `DOOR_MOVING` (`MovingMeansNotElapsed`).

*Conversation.* The invariant adds: a running timer tracks the age of the last
challenge and the age is at most the duration plus the gap since `loop()` was
entered (`TimerInv`), because a timer that had elapsed then was switched off; a
valid token is the one of the last challenge (`TokenInv`); and a conversation
that is younger than its duration is open (`OpenInv`). `ConversationAssumption`
has the gap below half the range, 24.8 days between two calls of `loop()`; there
`ElapsedIsAccurate` applies to both polls, and a command is executed if and only
if it is fresh.

*SecureLink.* The abstract specification knows, for each connection, how many requests
have arrived whole and which was handled last, and the request whose answer is due; the
mapping divides the bytes that have arrived by the length of a request, and takes the
request from the frame that is being answered. The steps that send, read, cut off and
reconnect have to map to a step of it or to none, as have those of a module that was
switched off and of a device that is stuck or restarts. What a step needs to know of the
state is in three parts: the buffer of the client holds the last bytes that were
fetched of what has arrived, and the server's client is the connection it accepted
last (`ClientInv`); the place where the server reads, counted from the first byte of
the connection, lies behind all requests that were handled (`ProgressInv`); and a
header that is the first bytes of a request has that request's length and comes after
them, so that when the body has been read the request has arrived whole and was not
handled before (`FrameInv`). A header that is read from the middle of a request has
any length, and what follows it is not authentic. `LinkAssumption` asks for requests
that are longer than their header and shorter than `MAX_TRANSMISSION_SIZE`, a buffer
that is not empty, and `NoSock` (which is `MAX_SOCK_NUM`) not being a socket.

*Cloud.* `UpdateIsWatched` is about live sockets only and is not inductive: a
handshake may leave `SPARK_CLOUD_CONNECTED` set on a socket that has closed, and the
next socket is then used without a handshake, the only place where an update is
forgotten. `WatchedInv` extends the claim to `connected` and adds that without a
session nothing is received, so that no update begins there. No assumption on the
constants is needed.

`TypeCorrect` needs none either: failed writes lead neither end out of its range, wherever
they send it back, and a tick finds no update older than the watchdog allows.

The other three theorems of `Cloud` share one invariant, `UpdateInv`. Of the device it
says (`ProgressInv`): during an update, also one whose link is gone, the indices agree
with the address, flash holds the image below that address and is erased from there
on; until the write of a short last chunk fails outside the first sector (`shortFailed`),
after which nothing is claimed (`MisplacedInv`) until the next update begins. Any other
failed write, which goes back to the start of a sector and erases it, keeps
it: the start of the sector is the start of a chunk, the driver
finds its number by dividing by the length of the chunk at hand, and the chunk
does not reach into the next sector (`SectorPlaces`, the one place where `FlashFits`
is used). As a chunk is saved where the device is, it must be the one the device waits
for, and that takes `SessionInv`, which says what may be on its way while the server
is in each state: at most one message about the update to the device; to the server
any number of requests for the chunk the device waits for, before which there may be
one ACK with its answer, before which there are only requests that the server is going
to ignore. Everything is cleared together when the link is lost. `FlashFits` says only
that `ChunkSize` divides `SectorSize`, as 512 divides 4096; the last chunk may have any
size up to `ChunkSize`, and any number of writes may fail.

*SeedRotation.* Neither property is about states, and the index wraps. `OrderInv`
measures how far back (`Back`) a seed lies behind the newest, around the table: every
seed used so far lies less than `rotations` back, which is less than the size of the
table, so the next one is new; the seed in use is the newest, and its nonces are
numbered without gaps. All of that is said of the nonces of the present boot, and of
all nonces while power was never cut between erase and write (`Relevant`), which gives
both theorems at once. The assumptions are the table's size and that it does not go
round (`SeedAssumption`).

*Eeprom.* The value of a variable is the data of its last slot, so the first lemmas say
what a step does to that: data without an address changes no variable
(`DataDoesNotCount`), the address changes one (`AddressCounts`). A last slot exists
because a set of numbers with a bound has a greatest one; `GreatestExists` gets it from
the minimum that a well-founded relation gives to each set (`WFMin`), which needs no
induction. `EepromInv` has four parts besides the types. `PlaceInv` says what the status of
both pages is at each place of each call; it holds whatever was cut short before, and
gives `BootLeavesPage`. `RoomInv` counts the slots of the new page: one for the write that
caused the transfer, and one for each variable passed, except that one. It gives
`RoomForTransfer`, that a transfer never meets `PAGE_FULL` even with as few slots as
variables, which is proved only. `CopyInv` says that
the variables that were passed are the same on both pages and the others not yet on the
new one, so that the old page can be erased. `ValueInv` says that, unless a
transfer was cut short, the pages are in one of four shapes (one valid and the other erased;
both erased and no write completed yet; a transfer in its call; a transfer that lacks only
its last operation) and that a page from which the next read or the next boot will take its
values (`Current`) has an allowed value for every variable (`Holds`). The last shape
is the reason for the exception in `RemembersUndisturbed`: outside of a call it is there only after
an operation has failed. `EepromAssumption` asks for a variable, as many slots as variables
(255 and 100 in the code), and values that fit in a byte.

*Radio.* Two independent arguments. `BusInv` says that the module is selected exactly
when the lock is its own, and that the flash is selected only with its own lock and at
one place of the thread. It needs `TransferInv`: a transfer runs only on a selected
module, an idle bus has none, and where `SpiWrite` waits between two transfers no
interrupt can end one. Together they are inductive and give `OneChipSelected`, also
after transfers were cut off. `NoBufferTwice` counts: a transmit buffer is free in the
host's eyes, held by the module, announced in its queue, or in the hand of a `send` that
has taken it and not delivered it (`Booked`). That these add up is `CountInv`; it needs
to know when the command in hand is delivered exactly once (`PlaceInv`: which state of
the bus goes with which place of the thread), that the thread awaits the answer to its
own command (`AwaitInv`), and that no permission is granted before the module has booted
(`BootInv`).

`StopsForACause`: a transfer that ends where `spi` knows of none, or a header of a module
that has nothing to say, stops the driver. `QuietInv` says that unless one of the three
causes is in the history, a transfer runs only in the four states that end one, and that
a low pin of a module that is not selected means a message, or the boot.
`AnswersAreOfTheCommand`: `buffer.old` marks the reply to an earlier command. `ReplyInv`
says that while the thread has not given up, there are no replies anywhere before it has
written its command (`Unasked`), and after that all of them, in the module and in the
buffer, are what is left of the reply to it: one answer, and behind it the data that the
answer announced. The exception is the buffer at `wlan_start` (`Starting`), where a
message from before the restart is overwritten by the first write.

*Wlan.* `AsleepIsQuiet` is not inductive, since a step of the loop that was under way
when WiFi was switched off could still raise a flag. `SleepInv` says that only the
application switches it off, so that in sleep no such step is under way, and that the
module is then off and has no events. `FailuresReset` needs that a failure is counted only
while no reset is wanted, so that the count is below its limit before it grows by one or
two (`ConnectFailsCounts`).

Only model-checked: the liveness properties (`CommandCompletes`, `ConversationEnds`,
`CarefulClientIsServed`, `DepartedClientIsLetGo`, `SilentServerIsNoticed`, `UpdateEnds`,
`CallsReturn`, `OffersAreTaken`, `LostModuleIsRestarted`, `StaleAddressIsNoticed`,
`ModuleIsStarted`, `DeadSessionIsDropped`), since the prover does not handle fairness. Every
invariant and every action property that a passing run checks is proved.

## 6. What is left out

* Cryptography is abstracted to who can produce which message, and AES, SHA-1 and
  PKCS #7 are not modelled. Nor is the entropy from pings and the clock: what is
  said of nonces is what the seeds alone guarantee.
* All requests of one connection have the same length. In `SecureLink` the flags of
  `spark_wlan.cpp` are four values of `wifi`; `Wlan` has them one by one. A call of
  `closesocket` that finds the module off is there as all calls of the driver are, as one
  that does not return; what else such a call might answer is left out.
* Erasing a page or programming a half-word is one step in `Eeprom` and
  `SeedRotation`.
* The content of cloud messages that are no part of an update, the rate limit of
  events, subscriptions, and reads of a single byte in `event_loop`.
* Of the CC3000's host driver, the parameters and results of commands, `select`,
  `accept` and the state of sockets, mDNS, and the module's own storage.
* The USB ring of `main.cpp` and `usb_endp.cpp`, which carries debug output only; a byte
  lost there is lost for a reader of a log.
* Components listed `not_modelled` in `PROJECT.json`: the wiring library, application
  glue, host programs and third-party code (CMSIS, the peripheral library, USB,
  PolarSSL). They are most of the lines of the repository and have no state machine of
  this program's: a wrapper per pin or register, or an algorithm taken from elsewhere.

## 7. Plan

Done: `Timer`, `Garage`, `Conversation`, `SecureLink`, `SeedRotation`, `Eeprom`,
`Cloud`, `Radio`, `Wlan`, and the proofs of every safety property. What is left:

1. The limit of 4 events a second (`spark_protocol.cpp:477`): no window of a second
   with more, at any phase of the wrapping counter. Refused events are counted too, so
   that one who tries five times a second is refused for ever after the first four.
2. A watchdog with a number in `Wlan`, whose deadline wraps and may be 0 (section 4).
