# TLA+ models of the SafeClimb firmware

SafeClimb is a chain of ESP32 towers. The main tower (highest `TOWER_NUMBER`) measures
the weather and sends the readings by LoRa, over repeaters, to tower 0, the server, which
publishes them by MQTT. A phone connected by Bluetooth to a tower can exchange text with the
MQTT side over the same chain. This directory models that behaviour, checks it with TLC and
proves part of it with TLAPS.

## Inventory

| Component | State | Operations | Modelled by |
|---|---|---|---|
| `LoraManager` (src/main/LoraManager.cpp) | `state`, `sender`, `transmitting`, `keepAlive`, `higher_order`, `actualPackage`, `receivedPackage`, `bluetooth_tower`, three timers | `exec` (one of seven handlers, two timeouts), `sendPackage`, `receivePackage`, `setHigherOrder`, `setKeepAlive`, `interrupt`, `Sleep` | `LoraTowers` |
| The same class's text side | `message`, `transmission`, `telephone`, `bluetooth_tower` | `consumeInfo`, `formatPhoneNumber` | `TextRelay` |
| Boot, threads, button (main.cpp) | which thread runs what; deep sleep; `buf` | `app_main`, `thread_LoRa`, `thread_Bluetooth`, `thread_Wifi`, `gpio_interrupt_handler` | `LoraTowers`; the readings in `LoraPackages`, the cutting of texts in `TextRelay`, `thread_Wifi` also in `ServerMqtt` |
| `LoraPackage` | header, payload, readings, bytes, sum | `setPayload`, `setPackage`, `encapsulate`, `decapsulate`, setters | `LoraPackages`, byte by byte; `LoraTowers`, as records |
| SX127x driver (components/lora) | receive buffer | send, receive, received | `LoraTowers`, variable `rx` |
| `WIFI` (publish, subscribe, receive) | connected bit, completed bits, incoming buffer | `MQTTpublish`, `MQTTpublishText`, `MQTTsubscribe`, `MQTTreceive`, callbacks | `ServerMqtt`; the incoming buffer, the hello message and the cutting of replies in `TextRelay`; the hand-over to LoRa in `LoraTowers` |
| coreMQTT-Agent manager | event group, `xCleanSession`, TLS context | connection task, agent task, event handlers, resubscribe | `ServerMqtt` |
| `subscription_manager` | ten-slot list | add, remove, fan-out | `ServerMqtt`, for the firmware's one filter |
| coreMQTT-Agent library | command queue, pending acknowledgements | command loop, resume session | `ServerMqtt`, as far as the above depend on it |
| `BluetoothManager`, GATT server (bluetooth.c) | `global_data`, `position`, `new_data`, `connected`; `telephone_set`, `data` | connect, write, cancel, disconnect events; `receiveData`, `dataReceived`, `sendData` | `PhoneInput`, and `TextRelay` |
| Sensors (ADC.cpp, Temperature.c) | none between calls | `temperature`, `measure_*` | their values and conversions in `LoraPackages` |
| Wi-Fi (app_wifi.c) | connected bit | provisioning, reconnection | the reconnection in `ServerMqtt` |
| Drivers, vendored code | | | not modelled (see the end) |

How they interact: `thread_LoRa` runs `exec` in a loop. The button interrupt and the
Bluetooth and Wi-Fi threads write LoraManager's members without a lock, between and during its
handlers; `sendPackage` waits by spinning on `transmitting`. Handlers contain delays
(`vTaskDelay`) of seconds, in which all of this happens. Towers interact only by frames that
any listening tower may or may not hear. On the server `consumeInfo`, running in
`thread_LoRa`, publishes and blocks until the broker has acknowledged; the publishing
and the subscribing thread talk to the agent task by a queue and by callbacks that set event
bits, and the connection task and the event loop tell everyone whether there is a connection.

What makes each part correct:

- LoRa chain: a measurement is published at most once, goes through every tower, is not
  abandoned before the next tower has it, and is announced only if delivered; every exchange
  ends; other threads' orders and the button never wedge a tower.
- MQTT: a publication returns only when the broker has it; the agent and the thread do not
  both resend it; no callback touches a dead stack frame; both sides agree on the connection; the
  subscription survives reconnections; a publication completes when the network allows.

- Texts: every text a phone completes is read; it is published whole, once, in order, with the number
  of the phone that wrote it; every reply reaches the phone it answers; no buffer overflows. The code
  achieves this under conditions, and the models say under which.
- Packages: what is published is what was measured, whatever hops, batteries and texts came in
  between; an undamaged package is never refused.

The hazards, line by line, are in PROJECT.json.

## Modules

| Module | What it is |
|---|---|
| `MeasurementDelivery` | abstract: a measurement is taken, delivered once, then reported |
| `LoraTowers` | the chain of `MainTower + 1` towers; `MCLoraTowers` adds a constraint for TLC |
| `ServerMqtt` | the server's MQTT side |
| `PhoneInput` | a phone's writes into `bluetooth.c`'s globals against `thread_Bluetooth`'s reads |
| `TextDelivery` | abstract: what each user sends is delivered complete, once, in order |
| `TextRelay` | EXTENDS `PhoneInput`: texts from the phones to MQTT and replies back; `MCTextRelay` adds scenarios |
| `LoraPackages` | packages as bytes and the readings they carry; `MCLoraPackages` has the values of the sensors |
| `LoraTowersProofs`, `LoraTowersPathProofs`, `LoraTowersReturnProofs`, `LoraTowersDeliveryProofs` | theorems about `LoraTowers` |
| `ServerMqttProofs`, `PhoneInputProofs`, `TextRelayProofs`, `LoraPackagesProofs` | theorems about the module of that name |

The modules cut the system at its queues and hand-overs. `LoraTowers` sees a package as an identity; what
`TextRelay` and `LoraPackages` need of it is that a package in charge of a tower may be heard by any other,
may be consumed more than once, and may be given up. `ServerMqtt` gives `TextRelay` a publish that returns
when the broker has it, and messages that arrive.

### LoraTowers and the code

`lora[t]` is the record of tower `t`'s LoraManager (fields named like the members) together with
`at`, the point at which its LoRa thread is: asleep, between two `exec` calls (`"idle"`), or in the
delay of a handler, and with the progress of the two other threads. An action per handler: a
handler with a delay is two actions, `Send_Payload` up to the delay and `Send_Payload_Done`
after it, and the same for `Receive_Payload`/`AcceptActual`, the text branch of the three other
receiving handlers (`ReceiveText`/`AcceptReceived`), and the others; so the interrupt
(`ButtonPressed`), `thread_Bluetooth` (`BluetoothNotified`, `BluetoothOn`, `SendFromBluetooth`,
`BluetoothOrders`) and `MQTTreceive` (`WifiOrders`, `SendFromWifi`) interleave where they can in the
code. `changeState` drops the change while `higher_order` is set, and every next `exec` clears it
(`Return`). Deep sleep (`Off`) is the loss of all RAM; a tower wakes by its timer or its button.

Radio. `Transmit` delivers a frame to any subset of the listening towers, with a CRC error to
some of the others. It waits until the listeners have read their last frame: a frame is a
second or more on the air, a listening tower polls every 20 ms.

Abstractions, and why they are sound for the properties:

- Content is an identity: the readings of a measurement, the characters of a text. A
  measurement's payload is always `"T"` (main.cpp:144), so the overheard-payload test compares kinds
  (`SamePayload`). Text codes 1, 2 and 3 are one kind. A text is never exactly `"OK"` or `"R"`.
- The checksum test is left out: the radio's CRC covers the package, so a frame is read
  intact or as a CRC error, for which `setPackage` keeps the previous package.
- Times are not counted. A timeout is an action enabled as soon as the code may take it, in any
  order relative to everything else, with two exceptions fixed by parameters.h. `OutlivedBy`: of
  two towers with the same measurement, the one nearer to the main tower took charge at
  least 7 s earlier (its own confirm and payload and the other's delay; 22 bytes plus payload at
  `BYTE_TIME` plus `EXTRA_TIME`) and no handler delays the next `exec` by more than 4 s, so its `GLOBAL_TIMEOUT`
  fires first. And a phone does not connect and write during the four seconds of measuring.
- A frame that arrives in the 20 ms between the decision to time out and the next `exec` is lost.
- `sendPackage` is atomic after its spin. In the code a preemption of a few microseconds
  between the spin and `transmitting = true` is possible (see the hazards).
- After `Sleep` with `keepAlive` the code falls through into the rest of its handler; the
  radio has just been switched to receiving and holds nothing, so that does nothing.
- `setBattery2` is in `LoraPackages`, the message buffers of `consumeInfo` in `TextRelay`. The blocking of
  its MQTT publish is covered by fairness here and by `ServerMqtt`.

### ServerMqtt and the code

`client` is the progress of the two threads in `prvPublishToTopic`/`prvSubscribeToTopic`, which are
the same loop with different bits; `queue` and `pending` are the agent's command queue and
`pPendingAcks`; `bits` and `appConnected` are the two event groups that say whether there is a
connection; `conn` and `agent` the places of the two tasks, one action per set or cleared bit
and posted event, so that every interleaving of the flagging sequences is explored. `events`
is the default event loop's queue. `wire`, `acks`, `broker` are packets under way and the
broker's session. Some definitions stand for code in several places beside the one in the map:

| Definition | also |
|---|---|
| `Enqueue` | WIFI.cpp 405-420 and the same in `prvSubscribeToTopic` (473-578) |
| `Conclude` | core_mqtt_agent.c 796-825 (`concludeCommand`), WIFI.cpp 460-471, the callback of a publish |
| `HandleAck` | core_mqtt_agent.c 630-730, WIFI.cpp 580-614, subscription_manager.c 49-140 |
| `IncomingPublish` | subscription_manager.c 144-180, WIFI.cpp 616-632 |
| `LoopProcessed` | core_mqtt_agent_manager.c 800-807 |
| `prvCoreMqttAgentEventHandler` | WIFI.cpp 296-341, the second handler of the same event |

Abstractions: a command is its kind (a thread has one outstanding; resubscribes share static
arguments). Connecting is one step that succeeds, or fails after CONNECT reached the broker
(`ConnackLost`, `ResumeFails`); other failures change nothing and are stutters. `Connect` needs
`HandshakeOutlasts`: the TLS handshake, over a network, takes longer than the event loop
task (priority 20) needs to handle what is posted and the agent task to flag a disconnection. That a late
disconnection event (core_mqtt_agent_manager.c:520) does not clear the flags of the next connection is thus assumed from
the times, not checked. Without the guard TLC finds `SubscriptionKept` violated: the connection task sees the late flag and
connects once more, and that is a second failure. `FlagsAgree` holds even so (queue of 2, up to four connections).
`LoopProcessed` lets the 10 s wait expire only while the agent waits for the next connection.
Only the bit of an incoming message is kept, not its buffer (which is in `TextRelay`). The OTA bit is always set. `Contents` says
what the filter string's stack bytes may hold once `MQTTsubscribe` has returned: the filter, or
anything (`FilterOverwritten`), since the code reads a dead array.

### PhoneInput, TextRelay and the code

`gatt[p]` holds the globals of `bluetooth.c` on the tower of phone `p`, `reader[p]` the place of
`thread_Bluetooth` in its loop and BluetoothManager's `telephone_set` and `data`. A phone writes a text, or
"55" and a number, with a terminating zero, in fragments; `WriteEvent` is the callback's write event with
`getString`, one step per fragment, and the reader's `Poll`, `Look` and `Copy` are the three reads of
shared memory, so the callback runs between any two of them. A character is a tuple that names its text
and place: mixtures of two texts are visible, its spelling is not.

`TextRelay` adds `HandOver` (main.cpp 198-227, one package at a time, each waiting for the one before),
`ConsumeAtServer` and `ConsumeAtTower` (`consumeInfo` on either side), the incoming buffer
(`MessageArrives`), and `MQTTreceive` in the steps where it reads shared state: `WifiWakes`, `Extract`, `Aim`
(`getBluetoothTower()` is read before the spin), `HandOverReply`. The chain in between is reduced to
`Reaches` and `ExchangeEnds`. `Over` is the payload array that keeps the tail of a longer
package before it; `Malformed` the message `extractMessage` returns null for, after which `strlen` restarts the server.

The code does not deliver every text, and the model does not pretend so. Each place where the code lets a
text go wrong adds a cause to `mishaps`, `upTroubles` or `downTroubles`, and the promises say that there is
no other:

| Cause | Where it comes from |
|---|---|
| overtaken | a phone completes or continues a text before the one before has been copied (one buffer, polled every 500 ms) |
| abandoned | a phone leaves or cancels in the middle of a text: `position` stays |
| dropped | a fragment that does not fit in 1024 bytes is dropped |
| tooLong | longer than `buf`, the telephone's 15 bytes or `message`'s 256 |
| unfinished | longer than LORA_BYTES and a multiple of it: no last package (relay_multiples) |
| empty | `setPayload` ignores it and the package before goes out again |
| lost, repeated | an exchange given up, or a package consumed twice (LoraTowers says when) |
| crossed | packages of two phones alternate on the server, or a text follows another phone's number |
| staleDigits | `formatPhoneNumber` reads on into a longer package before |
| overwritten | a second message arrives before the first has been extracted |
| retargeted | the reply's destination is read per package, and changed in between |
| phoneGone | `sendData` notifies nobody |
| restarted | the server restarts on a malformed message |

Every cause in this list is necessary: with any one of them removed from the recorded ones, TLC finds
`UpPromise`, `DownPromise`, `MessageFits` or `NothingLeftBehind` violated by relay_texts. What comes after a cause is
followed only as far as the later steps of the code depend on it; the promise is void from then on.

Abstractions: sizes are parameters (`BufferSize` 6 for 1024, `LoraBytes` 2 for 20 and so on). The zero written behind a
text that fills the buffer goes one past its end and is not followed. Plain and prepared
writes do the same to the buffer and are one action. What is wrong with a text at the JSON level
is left out: a quote in a text ends it early for whoever parses the payload.

### LoraPackages and the code

The operators `encapsulate`, `decapsulate`, `setPackage`, `setPayload`, `calculateSum` and the
setters are LoraPackage's, on records of its members; `package` is the sequence of bytes. `Converted` is
what `thread_LoRa`, `temperature` and the ADC make of the sensors' values. The state is one
`actualPackage` per tower and whether the tower is in charge of it; `Receive_Payload` sets the package and
either stops there (whatever the reason, a CRC error included) or passes all of the code's tests and relays; `TakeOver` is the
text that takes over from `receivedPackage` in the other handlers, which do not look at its sum. Of `receivedPackage` only the
readings survive that an earlier package left in it; a CRC error there, which repeats an old text, is for `LoraTowers`. Objects are
reused from package to package exactly where the code reuses them: what a text leaves behind, a
measurement finds. The 256 bytes of the arrays are not reached (a payload is at most LORA_BYTES or a number long);
an `int` is wider than anything here, and what two bytes cannot hold is what packages_below_zero shows.

## Runs

| Run | Distinct states | Bounds | Shows |
|---|---|---|---|
| one_measurement | 9 k | 3 towers, 1 measurement | types; `CustodyPassedOn`; `ReturnMeansConsumed`; the chain implements `MeasurementDelivery`; `MeasurementArrives` |
| two_measurements | 572 k | 3 towers; 2 measurements and 1 CRC error, or 1 text and a button | `ConsumedOnce`, `PathUnbroken`, `NoSuccessBeforeDelivery`, `KeepsMeasurement`, `TextSuccessMeansConsumed` |
| timeouts | 76 k | 2 towers, 1 measurement, 1 text, button on both, 1 CRC error | `EveryExchangeEnds` without long messages; `OnlyTextsRepeat` |
| mqtt_publish | 4.2 M | queue 2, 2 publications, 1 message, 2 losses, overwritten filter | types, `FinishedMeansReceived`, `ContextOutlivesCommand`, `AtMostOncePerConnection` |
| mqtt_liveness | 102 k | queue 4, 1 publication, 1 loss, 1 refusal, 1 select error | `FlagsAgree`, `SubscriptionKept` for a single failure, `PublishCompletes` |
| relay_texts | 1.7 M | 2 phones, five scenarios | types, `LastTextRead`, `UpPromise`, `DownPromise`, `MessageFits`, `NothingLeftBehind` |
| packages_readings | 1.6 M | 3 towers, 2 measurements, 1 text | `PublishedAsMeasured`, `TextsIntact`, `IntactIsAccepted` |

Three towers are a main tower, a repeater and the server: every role, and two hops, which is
what an exchange outliving its neighbour needs. Two towers suffice for what one tower does with
the orders of its other threads. Reboots are unbounded; frames may be lost without bound.

The command queue has 10 entries in the firmware. Two reach its limit with the three commands
there are; four never fill. "Losses" are lost connections, CONNACKs or Wi-Fi links together.

Scenarios. two_measurements has a CONSTRAINT that keeps measurements (with a CRC error) and texts (with the button)
apart, and relay_texts a variable `scenario`, chosen at the start, which cuts off the steps outside its bounds: each
covers the sum of several instances instead of one whose bounds are the maximum of each. relay_texts has: one phone that writes hastily, leaves, cancels and writes too
much (both parities of a fragment, texts up to the buffer's size); two phones whose packages alternate, with a
fault of the radio; two patient phones with a reply that may be malformed; one phone that comes and goes
with two replies, one of them malformed; one phone and a reply with a fault of the radio. Texts of 0 to 6 characters with LORA_BYTES = 2
have no, one, two and three packages, full and not full ones at the end. Numbers of one digit, which fit,
are written in the first, second and last scenarios, numbers of three, which do not, in the first.

packages_readings takes readings at both ends of every sensor's range (so that both bytes of each number
matter, and the percentages are cut off at 0 and 100), batteries of one and of two bytes, an empty text, and one of
fourteen bytes, the length of the readings.

`CHECK_DEADLOCK` is off in every run: with no measurement, text or publication left within the
bounds, all towers listen or all tasks wait, and that is a legitimate end.

### Runs that find a violation

| Run | What happens |
|---|---|
| false_success | An `R` names no package. The repeater retransmits the `R` of the first measurement; the main tower, asleep 6 s and measuring again, takes it for the second's and announces success for a measurement nobody consumed. |
| long_message | A long MQTT message during the server's acceptance delay drops its change of state but not `transmitting = true`: the server is deaf and `thread_Wifi` spins for ever. The window is narrow: `thread_Wifi` must be between WIFI.cpp:657 and the test of the spin when the delay ends. |
| mqtt_subscription_lost | A lost CONNACK or a second loss before the resubscribe is acknowledged: the filter stays in the list, the broker has no subscription, nobody subscribes again. |
| relay_multiples | A text of two full packages has no last package: it is published only together with the next text. |
| packages_below_zero | -5 degrees is published as 65486 tenths: the two bytes are read back unsigned. The same for a failed read of the thermometer, decoded as -2048 degrees. |

`SuccessMeansConsumed`, `EveryExchangeEnds`, `SubscriptionKept`, `PublishedAsMeasured` and the promise of
`TextRelay` thus hold in one run and fail in another: the passing run delimits the failure (one text without
an earlier exchange; no long message; a single loss; no reading below zero; no text whose length is a multiple).

What holds only in the scope checked. `ConsumedOnce`, `DeliveryPromise`, `CustodyPassedOn` and
`ReturnMeansConsumed` are checked without texts. With them they do not all hold: a text changes a
tower's timeout from 120 s to 600 s even if it is then refused (`ReceiveText`), which
undoes the order of timeouts on which single publication depends; an order from another thread
during `Send_Confirm_Primary` drops `Send_Return_` and the package is consumed again. The last three
are also checked without CRC errors. `OnlyTextsRepeat`, where texts and buttons occur, says where they can do that harm: a
measurement is published twice only if a phone, a text or an order of another thread meets it on a tower that has it
in hand or has taken charge of it (`TextMeetsMeasurement`). A tower that is in a session before must therefore
refuse measurements, which is what `RefusesSensors` (LoraManager.cpp:167, 237) is for.

More disagreements with comments were met and have no run. `lora_receive_packet` "returns number of bytes received (zero if no
packet available)" (lora.c:640); it returns 0 on a CRC error, the callers pass the 0 to `setPackage`, which keeps the
previous package, and the handlers act on that (`CrcError` in `LoraTowers`). The filter string in the subscription list is
an array on the stack of `MQTTsubscribe` (WIFI.cpp:675), which has returned while the list still
points to it (subscription_manager.h:68-70 asks that it stay in scope); with `FilterOverwritten` a
resubscribe may carry anything, and `SubscriptionKept` fails after one loss. After a select error the
connection task reconnects and queues the resubscribe while the agent task may still be inside its command
loop, against core_mqtt_agent_manager.c:474; the model explores this, and `FlagsAgree` and
`PublishCompletes` hold. And `temperature()` drops the tenths of a degree (`(int)readings[i]*10`, Temperature.c:206) that
main.cpp:105 prints with "%.1f"; `PublishedAsMeasured` compares with the number it returns.

## Fairness

`ThreadsRun`: FreeRTOS time-slices equal priorities and nothing holds a lock, so each thread of
an awake tower runs, and the wake-up timer fires. Sending and retransmitting are strongly fair: a time
elapsed stays elapsed while the handler is in a delay or reads a frame first, which disables the
action. `TimersElapse`: the same for the two exchange timeouts. `RadioFair` is an assumption on the
environment: a frame sent again and again to a neighbour that listens again and again is
heard in the end; the code's random 5 to 14 s timeout is there for that. Each is used only in the run
that needs it.

`Fairness` of `ServerMqtt`: tasks run; the broker answers; Wi-Fi comes back (app_wifi.c:131-135 connects again
after every disconnection); a connection attempt
that can succeed again and again does (`prvBackoffForRetry` retries for ever); a thread that retries for
ever finds room in a queue that is drained.

## Proofs

All theorems hold for every value of the constants that satisfies the named assumptions of the modules, and use no
timing assumption beyond the guards of the actions. Where a theorem needs more (no long message, no text, a single
measurement), that is a hypothesis in its statement, and given below with what goes wrong without it.

`LoraTowers`, for every length of the chain and every bound:

- `TypeCorrect` (`LoraTowersProofs`): `Spec => []TypeOK`. `TypeOK` is inductive; a typing lemma for each
  helper, then one for each group of actions.
- `PathCorrect` (`LoraTowersPathProofs`): `Spec => []PathUnbroken`. Not inductive, since it says
  nothing of packages under way. `PathInv` adds that a measurement is vouched for wherever it is, on the
  air or in a manager: the tower it names as its sender has taken charge of it
  (`VouchedBy`); and that a manager in the delay before it takes charge holds a package from the
  next tower up, or a text put there by another thread (`Sound`).
- `KeepsCorrect` (same module): `Spec => KeepsMeasurement`, from `PathInv` and a step lemma per group of actions.
- `NoSuccessCorrect` (`LoraTowersReturnProofs`): `Spec => []NoSuccessBeforeDelivery`. `ReturnInv`
  says that until something is consumed there is no `R` anywhere: not on the air (`Outward`), nobody in or
  about to enter a state of the return wave, and whoever is in an exchange carries information, so its
  payload is no `R` nor the blank package that passes for one (`Quiet`). It needs the absence of CRC
  errors; with them it fails.
- `OnePackageCorrect` and `TextSuccessCorrect` (same module): `Spec => []((crcErrors = 0 /\ measured + texts <= 1) =>
  SuccessMeansConsumed)`, and `Spec => []TextSuccessMeansConsumed`, which is the case of a text. `CarryInv` says that what the
  towers of an exchange carry, consume and announce is information that has been measured or handed over: `OK`,
  `R` and the blank package never take its place. With one such package, consumed and announced can only be about
  that one, and `NoSuccessBeforeDelivery` does the rest. With two, false_success is the counterexample.

The next five (`LoraTowersDeliveryProofs`) assume `~LongMessages`. They are about behaviours in which nobody has handed over a
text or pressed a button yet (`Quiet`) and, all but the first, in which there has been one measurement and no CRC error (`Lone`):

- `ConsumedOnceCorrect`: `Spec => [](Quiet => ConsumedOnce)`, for any number of measurements and CRC errors.
  A retransmission is harmless while the tower that hears it holds the measurement. What must be
  excluded is that tower t has let go of it, listens again, and t + 1 still has it to send. Tower t lets go by its
  timeout, which t + 1's precedes (`OutlivedBy`), or by the `R` of t + 1, which t + 1 sends when it no longer sends the
  payload. `ChainInv` states both as relations of neighbours, and `LedgerInv` relates the towers to the history variables. They are
  inductive because t + 1 cannot take the measurement back, which is the same statement one hop further up.
- `CustodyCorrect`, `ReturnCorrect`, `SuccessCorrect`: `Spec => [](Lone => ...)` for `CustodyPassedOn`,
  `ReturnMeansConsumed` and `SuccessMeansConsumed`. `WaveInv` says what a tower knows by its state and what a
  frame says by being on the air: its sender has taken charge, an `R` or a tower that carries one back has the consumption
  behind it, and a tower that waits for the `R` has a next tower that has taken charge.
- `DeliveryCorrect`: `Spec => DeliveryPromise`, the refinement of `MeasurementDelivery` for one measurement, with the bounds of texts,
  presses and CRC errors at 0.

`Lone` is the scope in which these are true of the code: false_success breaks `SuccessMeansConsumed` with a second
measurement, and texts, the button and CRC errors break the others as described under the runs.

`ServerMqtt`, for every length of the command queue and every bound (`ServerMqttProofs`):

- `TypeCorrect`, `ContextCorrect`, `FinishedCorrect`, `AtMostOnceCorrect`, `FlagsCorrect`: the invariants of the two runs except
  `SubscriptionKept`, which needs hypotheses and comes next. They come from layers, each on the ones before: `TypeInv`; `ThreadsInv`, a thread's
  command is in one place only, and the thread waits for it from the moment it is queued until it is concluded;
  `WireInv`, a packet under way belongs to the open connection and to a pending command, as a request or an acknowledgement
  but not both; `ReceivedInv`, the broker has what is acknowledged, and if it has taken a publication on the open
  connection, once at most, the acknowledgement is on its way or seen, so that neither the resend nor the retry sends it
  again on this one (`taken` starts at zero with each connection: what earlier ones lost is no credit for it);
  and, apart from these, `OnlineInv`, what is still queued for the event loop decides what the event groups will say.
- `SubscriptionCorrect`: `Spec => [](drops <= 1 => SubscriptionKept)`, assuming that the filter string stays intact and that
  the queue has four entries or more (the code's has 10, sdkconfig:491). None can be left out: mqtt_subscription_lost is
  the counterexample with a second loss, `FilterOverwritten` the one after one, and with a queue of two the resubscribe
  may find no room and nobody asks for it again. `OneLossInv` keeps three accounts: one loss leaves at most two
  connections, and the second stays open (`AttemptsInv`); before it no session and no resubscribe exists (`FirstInv`); and a
  filter in the list that the broker does not know has a flag, an event, a command or a packet that will
  bring it there (`ListInv`).

`PhoneInput` and `TextRelay`, for any phones, sizes, texts and fragments:

- `LastTextIsRead` (`PhoneInputProofs`): `PhoneSpec => []LastTextRead`. The invariant (`InStep`) says, for each place of the
  reader, what its `data` or the buffer has to do with the text completed last: as long as `new_data` is clear and
  nothing is half written, the buffer's C string is that of `latest`, and whatever the reader has seen before is
  still what `Look` would see. Writes between `Poll` and `Copy` set `new_data` or `position`, which voids it until
  the next poll.
- `PhonesTypeCorrect` (same module): `PhoneSpec => []PhoneTypeOK`. `BytesInv` adds that buffer and reader hold only what the
  tower's own phone wrote; that `CString` ends at all needs the least element of a set of numbers (lemma `Least`).
- `ReadsWhatWasWritten` (same module): as long as nothing has gone wrong with a phone's texts, what `thread_Bluetooth` is
  about to send is the text written last, or the one before if another is announced by now. `ReadInv` says what the buffer
  holds meanwhile: the beginning of the text being written, or, from `new_data` to the copy, the text written last. It
  assumes `NumberDigits < TelephoneBytes`: "+55" comes in front of the number on its way to the server, and the telephone
  arrays of both classes have 15 bytes (BluetoothManager.h:13, LoraManager.h:45), so a longer number is cut.
- `RelayImplementsPhones` (`TextRelayProofs`): `Spec => PhoneSpec`, every step of the relay is a step of `PhoneInput` or
  leaves its variables alone; so `RelayReadsLastText`: `Spec => []LastTextRead`.
- `RelayTypeCorrect`: `Spec => []TypeOK`, with `RelayTypes`, which says of whom the characters in each buffer are.
- `MessageFitsCorrect`: `Spec => []MessageFits`. `UpInv` and `DownInv` keep an account of lengths: what the destination has put
  together and what is on the air make up what has been cut off the text that is being sent. So no buffer
  holds more than a part of one text, unless a cause of the table above has occurred.
- `RepliesDelivered`: `Spec => DownPromise`, the refinement of `TextDelivery` for replies. `RepliesInv` is a queue per
  phone: what arrived for it is what it was notified of, then the reply whose last package is on the air, the
  one in MQTTreceive's hands, and the one in the incoming buffer (`Account`); and the parts of the one being sent are its
  beginning (`Gathered`). `NoReplyLeftBehind` follows: with all of these places empty the two histories are equal.
- `TextsDelivered`: `Spec => UpPromise`, the refinement of `TextDelivery` for texts, under the same assumption on
  `NumberDigits`. `TextsInv` is the queue of the other direction, over `global_data`, the reader, the air and the
  server's message, read off what each phone has written. It is harder than the replies' because a text does not
  carry its sender: the number is a text of its own that the server keeps (`Numbered` says that the server's telephone and hello
  flag are right for the next text of the phone whose number it is), and a text of another phone in between is one of the
  recorded causes.
- `NothingIsLeftBehind`: `Spec => []NothingLeftBehind`, from both queues with all places empty.

`LoraPackages`, for every length of the chain, every battery of two bytes and all texts:

- `OnTheWireCorrect` (`LoraPackagesProofs`): `Spec => []PublishedOnTheWire`, for all readings, below zero too: what the server
  publishes is one measurement with each number modulo 2^16, and the battery of the last repeater that has one. The
  invariant `IInv` says of every tower's package that its bytes are what encapsulating its members gives
  (`Coherent`), that its readings are those of a measurement taken, as they were measured or as two bytes have left them,
  with the battery of the last repeater it passed, or it is a text handed over, or an "OK" or "R" (`Genuine`), and that a tower
  in charge has put its own number in (`OwnNumber`). `RoundTrip` is the lemma it rests on: decapsulating what was
  encapsulated gives the members back, the readings modulo 2^16. `TakeOverSound` adds the takeovers, which only texts can
  do, whatever readings lie under them.
- `PublishedCorrect`: `Spec => []PublishedAsMeasured` follows, assuming `ReadingsFit`: every converted reading fits in
  two bytes. Here the assumption is needed, and false below zero: packages_below_zero is the counterexample.
- `TextsCorrect`: `Spec => []TextsIntact`, from `IInv`, with no assumption on the readings.
- `SumsCorrect`: `Spec => []IntactIsAccepted`, from `Coherent`, with none either: the bytes
  `calculateSum` looks at are the ones `encapsulate` has summed up, and the last two hold the sum, which fits in them (`SumFits`).
  `Sum` is a recursive function; that there is one, and that its values are numbers, is shown by the least length for which
  it would not be so, since the library's induction theorems cannot be used.

The inductive invariants were first checked by TLC on the instances of the runs.

Every invariant and action property of the passing runs has a theorem. Only model-checked are liveness
(`MeasurementArrives`, `EveryExchangeEnds`, `PublishCompletes`), for which TLAPS has no rule for fairness and ENABLED here, and
`OnlyTextsRepeat`, an implication between two temporal formulas about texts, for which `ChainInv` would have to follow every
session.

## Not modelled

The map covers a small share of the lines of C in the repository, because most of them are not the firmware's: the AWS
libraries and their examples and demos (`components/esp-aws-iot`, several copies of coreMQTT among them), corePKCS11,
coreHTTP, coreJSON, esp_secure_cert_mgr, qrcode, the FreeRTOS integration tests, managed_components and `build/`.
The firmware calls coreMQTT-Agent (modelled as far as it matters) and through it coreMQTT, and nothing else of them. Of the
firmware's own code in `src/main` there remain: register and one-wire transfers, the ADC's set-up and the DHT11
(hardware I/O with no state between calls); the table of services, descriptors and advertising in `bluetooth.c` and the
provisioning of a new device in `app_wifi.c`, which are set-up of ESP-IDF stacks; certificates; the moments of `app_main`
before all threads exist; the JSON text of payloads.

## Plan

In order of importance; done: the five modules and the theorems above.

1. `sendPackage` split at its spin, in a model of a session alone.
2. A composition of `LoraTowers`' server with an abstract MQTT publish that blocks.
