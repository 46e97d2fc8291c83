--------------------------------- MODULE Xhci ----------------------------------
(***************************************************************************)
(* The kernel's USB host driver (kernel/src/xhci.rs), one thread that      *)
(* polls, against the host controller and the people who plug devices in.  *)
(* Each access to a port register is a step of its own: the controller may *)
(* change the register between the driver's read and the write it derives  *)
(* from it.  The commands and the events are queues here; EventRing shows  *)
(* that the ring of TRBs is one.                                           *)
(***************************************************************************)
EXTENDS Naturals, Sequences, FiniteSets

CONSTANTS
  MaxPort,    \* HCSPARAMS1.MaxPorts
  MaxSlot,    \* HCSPARAMS1.MaxSlots, all enabled by run()
  EP0_SIZE,   \* entries of EP0_RING, 16 in the code
  Storage,    \* the ports whose device is of class 8
  MaxPlugs    \* bound: devices plugged in

\* The controller has a port and a slot, and a control request fits in the ring.
ASSUME XhciAssumption ==
  /\ MaxPort \in Nat \ {0} /\ MaxSlot \in Nat \ {0}
  /\ EP0_SIZE \in Nat /\ EP0_SIZE >= 3
  /\ MaxPlugs \in Nat

Ports == 1 .. MaxPort
Slots == 1 .. MaxSlot
Cells == 0 .. EP0_SIZE - 1

VARIABLES
  \* the controller and the devices
  port,         \* PORTSC of each port
  slot,         \* the controller's context of each slot
  bells,        \* <<slot, target>> doorbells rung and not yet served
  carried,      \* slots whose bulk OUT transfer brought a command block
  plugs,        \* devices plugged in so far
  \* what they share with the driver
  cmds,         \* commands the controller has not executed
  events,       \* events the driver has not taken
  inputCtx,     \* INPUT_CONTEXT, one for all slots
  ep0Ring,      \* EP0_RING, one for all slots
  buffer,       \* what DESCRIPTOR_BUFFER holds
  \* the driver
  pc,           \* where scan_ports or the handler of a port event stands
  seen,         \* the last value read from a port register
  pending_port_id, configuring_slot,
  ep0,          \* ep0_enqueue_index and ep0_cycle_state
  halted,       \* "no", "read" (the parking brake), "failed" (code 5)
  sent          \* commands pushed so far

hw == <<port, slot, bells, carried, plugs>>
soft == <<pc, seen, pending_port_id, configuring_slot, ep0, halted>>
vars == <<hw, soft, cmds, events, inputCtx, ep0Ring, buffer, sent>>

Bits == [ccs : BOOLEAN, ped : BOOLEAN, pr : BOOLEAN, csc : BOOLEAN, prc : BOOLEAN]
Clear == [ccs |-> FALSE, ped |-> FALSE, pr |-> FALSE, csc |-> FALSE, prc |-> FALSE]
Disabled == [state |-> "disabled", port |-> 0, deq |-> 0]
Zeroed == [stage |-> "none", cycle |-> FALSE]
CBW == MaxPort + 1      \* buffer: 0 is nothing, a port its device's descriptor
Steps == {"poll", "scan", "rescan", "ack", "change", "csc", "reread", "decide"}

Command(op, s) == [op |-> op, slot |-> s]
Commands == [op : {"enable", "address", "configure"}, slot : Slots \cup {0}]
Completion(cmd, s, code) == [type |-> "command", of |-> cmd.op, slot |-> s, code |-> code]
Change(p) == [type |-> "port", port |-> p]
Transfer(s, ep) == [type |-> "transfer", slot |-> s, ep |-> ep]
Events == [type : {"command"}, of : {"enable", "address", "configure"},
           slot : Slots \cup {0}, code : {1, 4, 5}] \cup
          [type : {"port"}, port : Ports] \cup [type : {"transfer"}, slot : Slots, ep : {1, 3, 4}]

\* After reset: no port has a device, no slot is in use.
reset ==
  /\ port = [p \in Ports |-> Clear]
  /\ slot = [s \in Slots |-> Disabled]
  /\ bells = {} /\ carried = {} /\ plugs = 0

\* The statics the driver shares with the controller, zeroed.
Statics ==
  /\ inputCtx = [op |-> "none", port |-> 0]
  /\ ep0Ring = [i \in Cells |-> Zeroed]
  /\ buffer = 0

init_pointers == cmds = << >> /\ sent = 0
init_interrupter == events = << >>

new ==
  /\ seen = Clear
  /\ pending_port_id = 0 /\ configuring_slot = 0
  /\ ep0 = [index |-> 0, cycle |-> TRUE]
  /\ halted = "no"

\* The controller runs, and scan_ports is about to look at the first port.
Init ==
  /\ reset /\ Statics /\ new /\ init_pointers /\ init_interrupter
  /\ pc = [at |-> "scan", port |-> 1]

--------------------------------------------------------------------------------
(* The controller, as the driver's comments and uses describe it. *)

\* A change of a port raises an event; while an earlier change of the same port
\* is not acknowledged it may raise none.
Raise(p) ==
  \/ events' = Append(events, Change(p))
  \/ (port[p].csc \/ port[p].prc) /\ UNCHANGED events

Connect(p) ==
  /\ plugs < MaxPlugs /\ ~port[p].ccs
  /\ plugs' = plugs + 1
  /\ port' = [port EXCEPT ![p].ccs = TRUE, ![p].csc = TRUE]
  /\ Raise(p)
  /\ UNCHANGED <<slot, bells, carried, soft, cmds, inputCtx, ep0Ring, buffer, sent>>

Disconnect(p) ==
  /\ port[p].ccs
  /\ port' = [port EXCEPT ![p].ccs = FALSE, ![p].ped = FALSE, ![p].csc = TRUE]
  /\ Raise(p)
  /\ UNCHANGED <<slot, bells, carried, plugs, soft, cmds, inputCtx, ep0Ring, buffer, sent>>

ResetDone(p) ==
  /\ port[p].pr
  /\ port' = [port EXCEPT ![p].pr = FALSE, ![p].prc = TRUE, ![p].ped = port[p].ccs]
  /\ Raise(p)
  /\ UNCHANGED <<slot, bells, carried, plugs, soft, cmds, inputCtx, ep0Ring, buffer, sent>>

\* What a write of v does: PR is set by a one, the change bits are cleared by one.
Written(p, v) ==
  LET now == port[p]
  IN  [port EXCEPT ![p] = [now EXCEPT !.pr = now.pr \/ v.pr, !.csc = now.csc /\ ~v.csc,
                                      !.prc = now.prc /\ ~v.prc]]

\* The next command is executed, or refused: without a free slot, for a slot in
\* the wrong state, with the wrong input context, or with no device to answer.
Execute ==
  /\ cmds # << >>
  /\ cmds' = Tail(cmds)
  /\ LET cmd == Head(cmds)
         reply(s, code) == events' = Append(events, Completion(cmd, s, code))
         ready == CASE cmd.op = "enable" -> \E s \in Slots : slot[s].state = "disabled"
                    [] cmd.op = "address" -> /\ slot[cmd.slot].state = "enabled"
                                             /\ inputCtx.op = "address"
                                             /\ port[inputCtx.port].ped
                    [] OTHER -> /\ slot[cmd.slot].state = "addressed"
                                /\ inputCtx.op = "configure"
                                /\ port[slot[cmd.slot].port].ped
     IN \/ /\ ready /\ cmd.op = "enable"
           /\ \E s \in Slots :
                /\ slot[s].state = "disabled" /\ \A t \in 1 .. s - 1 : slot[t].state # "disabled"
                /\ slot' = [slot EXCEPT ![s].state = "enabled"]
                /\ reply(s, 1)
        \/ /\ ready /\ cmd.op = "address"
           /\ slot' = [slot EXCEPT ![cmd.slot] =
                         [state |-> "addressed", port |-> inputCtx.port, deq |-> 0]]
           /\ reply(cmd.slot, 1)
        \/ /\ ready /\ cmd.op = "configure"
           /\ slot' = [slot EXCEPT ![cmd.slot].state = "configured"]
           /\ reply(cmd.slot, 1)
        \/ ~ready /\ (\E code \in {4, 5} : reply(cmd.slot, code)) /\ UNCHANGED slot
  /\ UNCHANGED <<port, bells, carried, plugs, soft, inputCtx, ep0Ring, buffer, sent>>

Answers(s) == slot[s].state \in {"addressed", "configured"} /\ port[slot[s].port].ped

\* The doorbell of a control endpoint: the controller takes the TRB at its own
\* dequeue pointer while the cycle bit says it is fresh.  Its pointer starts at
\* the first entry with cycle 1 and, without a Link TRB, never comes back to it.
Control(s) ==
  /\ <<s, 1>> \in bells
  /\ LET here == IF slot[s].deq \in Cells THEN ep0Ring[slot[s].deq] ELSE Zeroed
         fresh == Answers(s) /\ here.cycle
     IN /\ bells' = IF fresh THEN bells ELSE bells \ {<<s, 1>>}
        /\ slot' = IF fresh THEN [slot EXCEPT ![s].deq = @ + 1] ELSE slot
        /\ buffer' = IF fresh /\ here.stage = "data" THEN slot[s].port ELSE buffer
        /\ events' = IF fresh /\ here.stage = "status" THEN Append(events, Transfer(s, 1)) ELSE events
  /\ UNCHANGED <<port, carried, plugs, soft, cmds, inputCtx, ep0Ring, sent>>

\* The doorbells of the bulk endpoints: OUT takes the command block, IN answers.
BulkOut(s) ==
  /\ <<s, 4>> \in bells
  /\ bells' = bells \ {<<s, 4>>}
  /\ IF Answers(s) /\ slot[s].state = "configured"
       THEN /\ carried' = IF buffer = CBW THEN carried \cup {s} ELSE carried
            /\ events' = Append(events, Transfer(s, 4))
       ELSE UNCHANGED <<carried, events>>
  /\ UNCHANGED <<port, slot, plugs, soft, cmds, inputCtx, ep0Ring, buffer, sent>>

BulkIn(s) ==
  /\ <<s, 3>> \in bells /\ s \in carried /\ Answers(s)
  /\ bells' = bells \ {<<s, 3>>} /\ carried' = carried \ {s}
  /\ events' = Append(events, Transfer(s, 3))
  /\ UNCHANGED <<port, slot, plugs, soft, cmds, inputCtx, ep0Ring, buffer, sent>>

--------------------------------------------------------------------------------
(* The driver. *)

Idle == halted = "no" /\ pc.at = "poll"
Goto(at) == pc' = [pc EXCEPT !.at = at]
send_command(cmd) == cmds' = Append(cmds, cmd) /\ sent' = sent + 1

\* Mutant: the port, counted from one by the caller, is counted from one again.
enable_slot_off(p) == pending_port_id' = p + 1 /\ send_command(Command("enable", 0))

enable_slot(p) == pending_port_id' = p /\ send_command(Command("enable", 0))

\* scan_ports resets every port with a device, one after the other, and polling
\* begins when it has seen the last one.
ScanRead ==
  /\ pc.at = "scan"
  /\ seen' = port[pc.port]
  /\ Goto("rescan")
  /\ UNCHANGED <<hw, cmds, events, inputCtx, ep0Ring, buffer, pending_port_id,
                 configuring_slot, ep0, halted, sent>>

ScanWrite ==
  /\ pc.at = "rescan"
  /\ port' = IF seen.ccs THEN Written(pc.port, [seen EXCEPT !.pr = TRUE]) ELSE port
  /\ pc' = IF pc.port = MaxPort THEN [pc EXCEPT !.at = "poll"]
                                ELSE [at |-> "scan", port |-> pc.port + 1]
  /\ UNCHANGED <<slot, bells, carried, plugs, cmds, events, inputCtx, ep0Ring, buffer, seen,
                 pending_port_id, configuring_slot, ep0, halted, sent>>

\* A port status change event is taken and the register read.
PollPort ==
  /\ Idle /\ events # << >> /\ Head(events).type = "port"
  /\ LET p == Head(events).port
     IN /\ seen' = port[p]
        /\ pc' = [at |-> IF port[p].prc THEN "ack" ELSE "change", port |-> p]
  /\ events' = Tail(events)
  /\ UNCHANGED <<hw, cmds, inputCtx, ep0Ring, buffer, pending_port_id, configuring_slot,
                 ep0, halted, sent>>

\* The reset is acknowledged and, if the port was enabled when it was read, a slot
\* asked for it.
AckReset ==
  /\ pc.at = "ack"
  /\ port' = Written(pc.port, seen)
  /\ IF seen.ped THEN enable_slot(pc.port) ELSE UNCHANGED <<pending_port_id, cmds, sent>>
  /\ Goto("change")
  /\ UNCHANGED <<slot, bells, carried, plugs, events, inputCtx, ep0Ring, buffer, seen,
                 configuring_slot, ep0, halted>>

\* handle_port_change reads the register, acknowledges a connection and reads again.
ReadChange ==
  /\ pc.at \in {"change", "reread"}
  /\ seen' = port[pc.port]
  /\ Goto(IF pc.at = "change" /\ port[pc.port].csc THEN "csc" ELSE "decide")
  /\ UNCHANGED <<hw, cmds, events, inputCtx, ep0Ring, buffer, pending_port_id,
                 configuring_slot, ep0, halted, sent>>

AckConnect ==
  /\ pc.at = "csc"
  /\ port' = Written(pc.port, [seen EXCEPT !.pr = FALSE])
  /\ Goto("reread")
  /\ UNCHANGED <<slot, bells, carried, plugs, cmds, events, inputCtx, ep0Ring, buffer, seen,
                 pending_port_id, configuring_slot, ep0, halted, sent>>

\* Mutants: a connected port is reset though it is being reset, or though it is
\* enabled, or only while its connection is not acknowledged.
NeedsResetTwice(v) == v.ccs /\ ~v.ped
NeedsResetEnabled(v) == v.ccs /\ ~v.pr
NeedsResetIfNew(v) == v.ccs /\ v.csc /\ ~v.ped /\ ~v.pr

NeedsReset(v) == v.ccs /\ ~v.ped /\ ~v.pr

ResetPort ==
  /\ pc.at = "decide"
  /\ port' = IF NeedsReset(seen) THEN Written(pc.port, [seen EXCEPT !.pr = TRUE]) ELSE port
  /\ Goto("poll")
  /\ UNCHANGED <<slot, bells, carried, plugs, cmds, events, inputCtx, ep0Ring, buffer, seen,
                 pending_port_id, configuring_slot, ep0, halted, sent>>

address_device(s, p) ==
  /\ ep0Ring' = [i \in Cells |-> Zeroed]
  /\ inputCtx' = [op |-> "address", port |-> p]
  /\ send_command(Command("address", s))
  /\ UNCHANGED <<bells, buffer, ep0>>

\* The three TRBs of GET_DESCRIPTOR, pushed by push_ep0 at the driver's own index.
request_device_descriptor(s) ==
  LET at(i) == (ep0.index + i) % EP0_SIZE
      cycle(i) == IF ep0.index + i < EP0_SIZE THEN ep0.cycle ELSE ~ep0.cycle
      trb(i) == [stage |-> <<"setup", "data", "status">>[i + 1], cycle |-> cycle(i)]
  IN /\ ep0Ring' = [c \in Cells |-> IF \E i \in 0 .. 2 : c = at(i)
                                      THEN trb(CHOOSE i \in 0 .. 2 : c = at(i))
                                      ELSE ep0Ring[c]]
     /\ ep0' = [index |-> at(3), cycle |-> cycle(3)]
     /\ bells' = bells \cup {<<s, 1>>}
     /\ UNCHANGED <<buffer, inputCtx, cmds, sent>>

configure_endpoints(s) ==
  /\ inputCtx' = [op |-> "configure", port |-> 0]
  /\ send_command(Command("configure", s))

\* Mutant: the command block gets a buffer of its own, and the TRB the old one.
send_scsi_read_apart(s) ==
  /\ bells' = bells \cup {<<s, 4>>, <<s, 3>>}
  /\ UNCHANGED <<ep0Ring, ep0, inputCtx, cmds, sent, buffer>>

\* The command block goes where the descriptor was; OUT and IN are both rung.
send_scsi_read(s) ==
  /\ buffer' = CBW
  /\ bells' = bells \cup {<<s, 4>>, <<s, 3>>}
  /\ UNCHANGED <<ep0Ring, ep0, inputCtx, cmds, sent>>

\* A command completion.  The driver does not look at which command it is: it goes
\* by what it is waiting for.
PollCommand ==
  /\ Idle /\ events # << >> /\ Head(events).type = "command"
  /\ events' = Tail(events)
  /\ LET s == Head(events).slot
         good == Head(events).code = 1 /\ s > 0
     IN \/ /\ good /\ pending_port_id > 0
           /\ pending_port_id' = 0
           /\ address_device(s, pending_port_id)
           /\ UNCHANGED <<configuring_slot, halted>>
        \/ /\ good /\ pending_port_id = 0 /\ configuring_slot = s
           /\ configuring_slot' = 0
           /\ send_scsi_read(s)
           /\ UNCHANGED <<pending_port_id, halted>>
        \/ /\ good /\ pending_port_id = 0 /\ configuring_slot # s
           /\ request_device_descriptor(s)
           /\ UNCHANGED <<pending_port_id, configuring_slot, halted>>
        \/ /\ ~good
           /\ halted' = IF Head(events).code = 5 THEN "failed" ELSE halted
           /\ UNCHANGED <<bells, cmds, inputCtx, ep0Ring, buffer, pending_port_id,
                          configuring_slot, ep0, sent>>
  /\ UNCHANGED <<port, slot, carried, plugs, pc, seen>>

\* A transfer event.  Only slot 1 is asked for its class; the first bulk IN
\* transfer, of any slot, ends the driver's work.
PollTransfer ==
  /\ Idle /\ events # << >> /\ Head(events).type = "transfer"
  /\ events' = Tail(events)
  /\ LET e == Head(events)
         cargo == e.ep = 1 /\ e.slot = 1 /\ buffer \in Storage
     IN /\ IF cargo
             THEN configuring_slot' = e.slot /\ configure_endpoints(e.slot)
             ELSE UNCHANGED <<configuring_slot, inputCtx, cmds, sent>>
        /\ halted' = IF e.ep = 3 THEN "read" ELSE halted
  /\ UNCHANGED <<hw, ep0Ring, buffer, pc, seen, pending_port_id, ep0>>

--------------------------------------------------------------------------------
Serve(s) == Control(s) \/ BulkOut(s) \/ BulkIn(s)
Handle == AckReset \/ ReadChange \/ AckConnect \/ ResetPort
Poll == PollPort \/ PollCommand \/ PollTransfer

Next ==
  \/ \E p \in Ports : Connect(p) \/ Disconnect(p) \/ ResetDone(p)
  \/ Execute
  \/ \E s \in Slots : Serve(s)
  \/ ScanRead \/ ScanWrite
  \/ Handle \/ Poll

\* The controller goes on by itself, the driver's loops run, and its caller polls
\* again; nobody has to plug anything in or out.
Fairness ==
  /\ \A p \in Ports : WF_vars(ResetDone(p))
  /\ WF_vars(Execute)
  /\ \A s \in Slots : WF_vars(Control(s)) /\ WF_vars(BulkOut(s)) /\ WF_vars(BulkIn(s))
  /\ WF_vars(ScanRead \/ ScanWrite \/ Handle \/ Poll)

Spec == Init /\ [][Next]_vars /\ Fairness

--------------------------------------------------------------------------------
TypeOK ==
  /\ port \in [Ports -> Bits]
  /\ slot \in [Slots -> [state : {"disabled", "enabled", "addressed", "configured"},
                         port : Ports \cup {0}, deq : 0 .. EP0_SIZE]]
  /\ bells \subseteq Slots \X {1, 3, 4} /\ carried \subseteq Slots
  /\ plugs \in 0 .. MaxPlugs /\ sent \in Nat
  /\ cmds \in Seq(Commands) /\ events \in Seq(Events)
  /\ inputCtx \in [op : {"none", "address", "configure"}, port : Ports \cup {0}]
  /\ ep0Ring \in [Cells -> [stage : {"none", "setup", "data", "status"}, cycle : BOOLEAN]]
  /\ buffer \in 0 .. CBW
  /\ pc \in [at : Steps, port : Ports] /\ seen \in Bits
  /\ pending_port_id \in Ports \cup {0} /\ configuring_slot \in Slots \cup {0}
  /\ ep0 \in [index : Cells, cycle : BOOLEAN]
  /\ halted \in {"no", "read", "failed"}

\* The commands in flight: not executed, or executed and the completion not taken.
Outstanding ==
  {cmds[i].op : i \in DOMAIN cmds} \cup
  {events[i].of : i \in {j \in DOMAIN events : events[j].type = "command"}}

CommandsInFlight == Len(cmds) + Cardinality({i \in DOMAIN events : events[i].type = "command"})

Alone == plugs <= 1

\* The driver tells a completion by what it waits for (xhci.rs:318-338).  With one
\* device plugged in once, whenever and however often it is taken out, that is
\* right: there is one command in flight, it is the one waited for.
Attribution ==
  Alone =>
    /\ CommandsInFlight <= 1
    /\ "enable" \in Outstanding => pending_port_id > 0
    /\ "address" \in Outstanding => pending_port_id = 0 /\ configuring_slot = 0
    /\ "configure" \in Outstanding => pending_port_id = 0 /\ configuring_slot = 1

\* One descriptor buffer serves every slot and holds the SCSI command block too.
\* With one device, when the driver reads the class there, or the controller takes
\* the command block from there, it is what it should be.
BufferIsCurrent ==
  Alone =>
    \A i \in DOMAIN events : events[i].type = "transfer" =>
      buffer = IF events[i].ep = 1 THEN slot[events[i].slot].port ELSE CBW

\* The command ring has no Link TRB and is not to wrap (ring.rs:98-99): its 16
\* entries last for five connections, whatever the order of events.
CommandsPerPlug == sent <= 3 * plugs

\* A storage device that is plugged in and left alone is read in the end: no
\* interleaving of its connection, its reset and the scan of the ports loses it.
StorageIsRead ==
  \A p \in Storage : <>[](plugs = 1 /\ port[p].ccs) => <>(halted = "read")

\* xhci.rs:334 says of a completion that comes with nothing pending: "we assume
\* Address Device just finished".  The descriptor is then asked of that slot.
AssumedAddressed == \A s \in Slots : <<s, 1>> \in bells => slot[s].state \in {"addressed", "configured"}
================================================================================
