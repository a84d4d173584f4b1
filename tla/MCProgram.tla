----------------------------- MODULE MCProgram -----------------------------
(* TLC instance of the way from the command line to a seized interface:    *)
(* Cli parses, Program discovers and selects, UsbCreate makes the          *)
(* transport.  A behaviour of the run is one of the three, while the other *)
(* two rest in a final state.                                              *)
EXTENDS Program, Cli, UsbCreate

\* Two TEAC drives, one of them with a partition, a TEAC device without the
\* UFI/CBI interface, another TEAC product and a foreign hard disk.
Floppy(d) ==
  [drive |-> d, teac |-> TRUE, named |-> TRUE, ufi |-> TRUE,
   external |-> TRUE, removable |-> TRUE, whole |-> TRUE, block512 |-> TRUE]

Slice == [Floppy(1) EXCEPT !.whole = FALSE]
OtherInterface == [Floppy(3) EXCEPT !.ufi = FALSE]
HardDisk == [Floppy(4) EXCEPT !.teac = FALSE, !.named = FALSE,
                              !.removable = FALSE]
OtherProduct == [Floppy(5) EXCEPT !.named = FALSE]

MCMedia == {Floppy(1), Slice, Floppy(2), OtherInterface, HardDisk,
            OtherProduct}
WithSlice == {Floppy(1), Slice}
TwoDrives == {Floppy(1), Floppy(2)}
MCDiskOf == [n \in {"disk4s1"} |-> "disk4"]
MCPrefixes == {<< >>, <<"/dev/">>, <<"r">>, <<"/dev/", "r">>,
               <<"r", "/dev/">>, <<"/dev/", "/dev/">>}

\* Every option, and a word that is none.
MCWords == {JSON, ACK, DEVICE, OUTPUT, "x"}

ProgramRests ==
  /\ attached = [n \in AllNames |-> NoMedium] /\ mounted = {} /\ events = 0
  /\ pc = "done" /\ request = NoRequest
  /\ left = {} /\ device = NoDevice /\ list = << >>
  /\ interface = 0 /\ seized = 0 /\ exit = 64
CliRests ==
  /\ argv = << >> /\ index = 2 /\ verdict = "refused"
  /\ options = [json |-> FALSE, acknowledgement |-> FALSE, device |-> NULL,
                output |-> NULL]
UsbRests ==
  /\ at = "gone" /\ entry = 0 /\ refs = {} /\ status = "OK"
  /\ answer = "OK" /\ endpoints = << >> /\ pipe = 0 /\ pipes = NoPipes

MainInit ==
  \/ CliInit /\ ProgramRests /\ UsbRests
  \/ CliRests /\ ProgramInit /\ UsbRests
  \/ CliRests /\ ProgramRests /\ UsbInit

MainNext ==
  \/ CliNext /\ UNCHANGED <<progvars, usbvars>>
  \/ ProgramNext /\ UNCHANGED <<clivars, usbvars>>
  \/ UsbNext /\ UNCHANGED <<clivars, progvars>>

MainSpec == MainInit /\ [][MainNext]_<<clivars, progvars, usbvars>>
=============================================================================
