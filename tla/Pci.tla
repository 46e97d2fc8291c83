--------------------------------- MODULE Pci ---------------------------------
(***************************************************************************)
(* The search for devices on the PCI bus (kernel/src/pci.rs).  A machine   *)
(* is the set of functions that answer, each with its bus, device and      *)
(* number, its class, and the value of its first base address registers.   *)
(***************************************************************************)
EXTENDS Integers, Sequences

None == << >>
Functions8 == 0 .. 7
XhciClass == <<12, 3, 48>>

At(machine, b, d, f) == {x \in machine : <<x.bus, x.device, x.func>> = <<b, d, f>>}
Present(machine, b, d, f) == At(machine, b, d, f) # {}
The(machine, b, d, f) == CHOOSE x \in At(machine, b, d, f) : TRUE

\* The place in the order of the three loops.
Place(b, d, f) == (b * 32 + d) * 8 + f

\* Mutant: the header type of the function looked at decides.
LookedAtOwn(machine) ==
  {x \in machine : Present(machine, x.bus, x.device, 0) /\ (x.func = 0 \/ x.multi)}

\* What enumerate_buses looks at: function 0 of a device that answers there, and
\* the others if that one says there are others.
LookedAt(machine) ==
  {x \in machine : /\ Present(machine, x.bus, x.device, 0)
                   /\ x.func = 0 \/ The(machine, x.bus, x.device, 0).multi}

First(set) == CHOOSE x \in set : \A y \in set : Place(x.bus, x.device, x.func) <= Place(y.bus, y.device, y.func)

\* Base address registers of 32 bits, as <<bar0 without its low four bits, the type
\* in bits 1 and 2, bar1>>.
read_bar0(x) == IF x.bar.type = 2 THEN <<x.bar.low, x.bar.high>> ELSE <<x.bar.low, 0>>

scan(machine) ==
  LET found == {x \in LookedAt(machine) : x.class = XhciClass}
  IN IF found = {} THEN None ELSE read_bar0(First(found))

\* find_device asks function 0 only, and for class and subclass only.
find_device(machine, class, subclass) ==
  LET found == {x \in machine : x.func = 0 /\ x.class[1] = class /\ x.class[2] = subclass}
  IN IF found = {} THEN None ELSE <<First(found).bus, First(found).device, 0>>

--------------------------------------------------------------------------------
\* A machine the specification of the bus allows: function 0 answers where any does,
\* and says so when there are more.
WellFormed(machine) ==
  \A x \in machine : /\ Present(machine, x.bus, x.device, 0)
                     /\ x.func > 0 => The(machine, x.bus, x.device, 0).multi

\* On such a machine the scan finds an xHCI controller when there is one, and no
\* other device is taken for one; and where the search by class finds nothing, there
\* is none among the functions 0.
ScanFindsXhci(machine) ==
  WellFormed(machine) =>
    LET controllers == {x \in machine : x.class = XhciClass}
    IN /\ scan(machine) = None <=> controllers = {}
       /\ controllers # {} => \E x \in controllers : scan(machine) = read_bar0(x)
       /\ find_device(machine, 12, 3) = None => \A x \in controllers : x.func > 0
================================================================================
