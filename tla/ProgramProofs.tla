--------------------------- MODULE ProgramProofs ---------------------------
(***************************************************************************)
(* The way to a seized interface: discovery, selection and validation for  *)
(* any media and any names (Program), and the objects the USB transport    *)
(* holds on every path of its creation, seize and destruction (UsbCreate); *)
(* and the command line that selects a workflow, for any words (Cli).      *)
(***************************************************************************)
EXTENDS Program, Cli, UsbCreate, FiniteSetTheorems, SequenceTheorems, TLAPS
-----------------------------------------------------------------------------
(* The USB transport *)

Transport == {"interface", "io", "engine"}

UsbTypeOK ==
  /\ at \in {"match", "walk", "plugin", "query", "alloc", "idle",
             "descriptors", "pipe", "source", "open", "failed", "gone"}
  /\ pipes \in [Role -> 0..3]

\* What is held while a call is awaited.
RefsMatch ==
  /\ at \in {"match", "failed", "gone"} => refs = {}
  /\ at \in {"walk", "plugin"} => refs = {"entry"}
  /\ at = "query" => refs = {"plugin"}
  /\ at = "alloc" => refs = {"interface"}
  /\ at = "idle" => refs = Transport
  /\ at \in {"descriptors", "pipe", "source"} =>
       refs = Transport \cup {"open"}
  /\ at = "open" => refs = Transport \cup {"open", "source"}

\* The status stays IO until the transport exists.
StatusMatches ==
  /\ at \in {"match", "walk", "plugin", "query", "alloc"} => status = "IO"
  /\ at \in {"idle", "descriptors", "pipe", "source", "open"} =>
       status = "OK"
  /\ at = "failed" => status # "OK"

\* The pipes looked at so far and the roles filled so far are the same.
PipesMatch ==
  at \in {"pipe", "source", "open"} =>
    /\ DOMAIN endpoints = 1..3
    /\ pipe \in 1..4
    /\ \A r \in Role : pipes[r] < pipe
    /\ \A r \in Role : pipes[r] # 0 => endpoints[pipes[r]] = r
    /\ \A p \in 1..3 :
         p < pipe => endpoints[p] \in Role /\ pipes[endpoints[p]] = p
    /\ at # "pipe" => pipe = 4 /\ \A r \in Role : pipes[r] # 0

UsbInv == UsbTypeOK /\ RefsMatch /\ StatusMatches /\ PipesMatch

\* m65_usb_cbi_transport_create is entered.
LEMMA UsbInitInv == UsbInit => UsbInv
BY DEF UsbInit, UsbInv, UsbTypeOK, RefsMatch, StatusMatches, PipesMatch,
       NoPipes, Role

\* A failed create has the status of the failure.
LEMMA StatusOfFailure ==
  ASSUME NEW s \in IOFailure
  PROVE  transport_status_for_cbi(s) # "OK"
BY DEF IOFailure, transport_status_for_cbi

\* m65_usb_cbi_transport_create, call by call.
LEMMA CreationInv ==
  ASSUME UsbInv, Creation
  PROVE  UsbInv'
  <1> USE DEF UsbInv, setup
  <1>1. UNCHANGED pipes
    BY DEF Creation, MatchName, NextParent, FoundInterface, PluginCreated,
         PluginRefused, Queried, Allocated
  <1>2. at' \in {"walk", "plugin", "query", "alloc", "idle", "failed"}
    BY DEF Creation, MatchName, NextParent, FoundInterface, PluginCreated,
         PluginRefused, Queried, Allocated, ReturnNull
  <1>3. UsbTypeOK' /\ PipesMatch'
    BY <1>1, <1>2 DEF UsbTypeOK, PipesMatch
  <1>4. RefsMatch'
    BY DEF Creation, MatchName, NextParent, FoundInterface, PluginCreated,
         PluginRefused, Queried, Allocated, ReturnNull, PluginDestroyed,
         RefsMatch, Transport
  <1>5. StatusMatches'
    BY StatusOfFailure
       DEF Creation, MatchName, NextParent, FoundInterface, PluginCreated,
         PluginRefused, Queried, Allocated, ReturnNull, StatusMatches
  <1> QED
    BY <1>3, <1>4, <1>5

\* A failing path of mac_open_seize leaves the transport as it was before.
LEMMA SeizeRefused ==
  ASSUME UsbInv, at \in {"descriptors", "pipe", "source"},
         SeizeUndone, UNCHANGED setup, NEW s, Answered(s)
  PROVE  UsbInv'
  <1>1. at' = "idle" /\ refs' = Transport /\ status' = "OK"
    BY DEF UsbInv, RefsMatch, StatusMatches, SeizeUndone, Answered, Transport
  <1> QED
    BY <1>1 DEF UsbInv, UsbTypeOK, RefsMatch, StatusMatches, PipesMatch, setup

\* A pipe that fills its role.
LEMMA PipeReadInv ==
  ASSUME UsbInv, at = "pipe", pipe <= 3, Fills(endpoints[pipe]),
         pipes' = [pipes EXCEPT ![endpoints[pipe]] = pipe],
         pipe' = pipe + 1, UNCHANGED <<at, refs, status, endpoints>>
  PROVE  UsbInv'
  <1> USE DEF UsbInv
  <1>1. pipe \in 1..3 /\ endpoints[pipe] \in Role
    BY DEF PipesMatch, Fills
  <1>2. UsbTypeOK' /\ RefsMatch' /\ StatusMatches'
    BY <1>1 DEF UsbTypeOK, RefsMatch, StatusMatches
  <1>3. \A r \in Role : pipes'[r] = IF r = endpoints[pipe] THEN pipe
                                    ELSE pipes[r]
    BY <1>1 DEF UsbTypeOK
  <1>4. \A r \in Role : pipes[r] \in 0..3 /\ pipes[r] < pipe
    BY DEF UsbTypeOK, PipesMatch
  <1>5. \A r \in Role : pipes'[r] < pipe'
    BY <1>1, <1>3, <1>4
  <1>6. \A r \in Role : pipes'[r] # 0 => endpoints'[pipes'[r]] = r
    BY <1>3 DEF PipesMatch
  <1>7. ASSUME NEW p \in 1..3, p < pipe'
        PROVE  endpoints'[p] \in Role /\ pipes'[endpoints'[p]] = p
    <2>1. CASE p = pipe
      BY <1>1, <1>3, <2>1
    <2>2. CASE p < pipe
      <3>1. endpoints[p] \in Role /\ pipes[endpoints[p]] = p
        BY <2>2 DEF PipesMatch
      <3>2. endpoints[p] # endpoints[pipe]
        BY <3>1 DEF Fills
      <3> QED
        BY <1>3, <3>1, <3>2
    <2> QED
      BY <1>1, <1>7, <2>1, <2>2
  <1>8. PipesMatch'
    BY <1>1, <1>5, <1>6, <1>7 DEF PipesMatch
  <1> QED
    BY <1>2, <1>8

\* mac_open_seize, call by call.
LEMMA SeizingInv ==
  ASSUME UsbInv, Seizing
  PROVE  UsbInv'
  <1>1. CASE OpenSeize
    BY <1>1 DEF OpenSeize, Answered, UsbInv, UsbTypeOK, RefsMatch,
         StatusMatches, PipesMatch, setup, Transport
  <1>2. CASE DescriptorsRead
    <2>1. CASE DOMAIN endpoints = 1..3 /\ at' = "pipe" /\ pipe' = 1
               /\ pipes' = NoPipes /\ UNCHANGED <<refs, status, endpoints>>
      BY <1>2, <2>1 DEF DescriptorsRead, UsbInv, UsbTypeOK, RefsMatch,
           StatusMatches, PipesMatch, NoPipes
    <2> QED
      BY <1>2, <2>1, SeizeRefused DEF DescriptorsRead
  <1>3. CASE PipeRead
    BY <1>3, PipeReadInv, SeizeRefused DEF PipeRead
  <1>4. CASE PipeUnreadable
    BY <1>4, SeizeRefused DEF PipeUnreadable
  <1>5. CASE PipesComplete
    <2>1. CASE /\ \A r \in Role : pipes[r] # 0
               /\ at' = "source"
               /\ UNCHANGED <<refs, status, setup>>
      BY <1>5, <2>1 DEF PipesComplete, UsbInv, UsbTypeOK, RefsMatch,
           StatusMatches, PipesMatch, setup
    <2> QED
      BY <1>5, <2>1, SeizeRefused DEF PipesComplete
  <1>6. CASE SourceCreated
    <2>1. CASE /\ at' = "open" /\ refs' = refs \cup {"source"}
               /\ UNCHANGED <<status, setup>>
      BY <1>6, <2>1 DEF SourceCreated, UsbInv, UsbTypeOK, RefsMatch,
           StatusMatches, PipesMatch, setup, Transport
    <2> QED
      BY <1>6, <2>1, SeizeRefused DEF SourceCreated
  <1> QED
    BY <1>1, <1>2, <1>3, <1>4, <1>5, <1>6 DEF Seizing

\* Creation, seize, release and destruction keep UsbInv.
LEMMA UsbNextInv == UsbInv /\ [UsbNext]_usbvars => UsbInv'
  <1> SUFFICES ASSUME UsbInv, [UsbNext]_usbvars PROVE UsbInv'
    OBVIOUS
  <1>1. CASE CloseInterface \/ DestroyIo
    BY <1>1 DEF CloseInterface, DestroyIo, Answered, UsbInv, UsbTypeOK,
         RefsMatch, StatusMatches, PipesMatch, setup, Transport
  <1>2. CASE UNCHANGED usbvars
    BY <1>2 DEF usbvars, UsbInv, UsbTypeOK, RefsMatch, StatusMatches,
         PipesMatch
  <1> QED
    BY <1>1, <1>2, CreationInv, SeizingInv DEF UsbNext

\* The inductive invariant of the transport's life.
THEOREM UsbInvariant == UsbSpec => []UsbInv
BY UsbInitInv, UsbNextInv, PTL DEF UsbSpec

\* On every path of m65_usb_cbi_transport_create, mac_open_seize and
\* mac_destroy_io the process holds what the state promises, and commands run
\* over one pipe of each kind, whatever the order and number of endpoints.
THEOREM TransportHolds == UsbSpec => []HoldsWhatItNeeds
  <1>1. ASSUME UsbInv PROVE HoldsWhatItNeeds
    <2>1. ASSUME at = "open"
          PROVE  {endpoints[p] : p \in 1..3} = Role
      <3>1. /\ \A p \in 1..3 : endpoints[p] \in Role
            /\ \A r \in Role : /\ pipes[r] \in 1..3
                               /\ endpoints[pipes[r]] = r
        BY <1>1, <2>1 DEF UsbInv, UsbTypeOK, PipesMatch
      <3> QED
        BY <3>1
    <2>2. at = "open" => \A r \in Role : pipes[r] \in 1..3
      BY <1>1 DEF UsbInv, UsbTypeOK, PipesMatch
    <2> QED
      BY <1>1, <2>1, <2>2 DEF UsbInv, RefsMatch, StatusMatches, PipesMatch,
           HoldsWhatItNeeds, Transport
  <1> QED
    BY <1>1, UsbInvariant, PTL
-----------------------------------------------------------------------------
(* Discovery and selection *)

Entry == [name : AllNames, medium : Media]

Device ==
  [name : AllNames \cup {NONE}, medium : Media \cup {NoMedium},
   known : BOOLEAN, external : BOOLEAN, removable : BOOLEAN, whole : BOOLEAN,
   mounted : BOOLEAN, block512 : BOOLEAN]

ProgramTypeOK ==
  /\ attached \in [AllNames -> Media \cup {NoMedium}]
  /\ events \in Nat
  /\ pc \in {"start", "next", "describe", "create", "seize", "seized", "done"}
  /\ request \in Requests \cup {NoRequest}
  /\ left \subseteq Entry
  /\ device \in Device
  /\ list \in Seq(Device)
  /\ interface \in Nat /\ seized \in Nat

\* What the list holds was identified, within its places.
ListIdentified ==
  /\ Len(list) <= MaxDevices
  /\ \A i \in DOMAIN list :
       /\ list[i].known
       /\ list[i].name \in AllNames
       /\ identity_matches(list[i].medium)
  /\ pc = "start" => list = << >> /\ left = {}
  /\ pc = "describe" =>
       /\ device.name \in AllNames
       /\ device.known => identity_matches(device.medium)
       /\ \E e \in Entry, k \in BOOLEAN :
            device = [NoDevice EXCEPT !.name = e.name, !.medium = e.medium,
                                      !.known = k]

\* From its acceptance on, the device is an entry of the list that the request
\* names and that passes m65_validate_device.
DeviceAccepted ==
  /\ pc \in {"create", "seize", "seized"} =>
       /\ request # NoRequest
       /\ Matches(device) /\ validate_device(device)
       /\ \E i \in DOMAIN list : list[i] = device
  /\ pc \in {"seize", "seized"} =>
       \E m \in Media :
         m.drive = interface /\ is_known_ufi_cbi_interface(m)
  /\ seized # 0 => pc = "seized" /\ seized = interface

\* The fields of an entry that was described are those of its medium.
TrueTo(d) ==
  LET m == attached[d.name]
  IN  d.external =>
        /\ m.external = d.external /\ m.removable = d.removable
        /\ m.whole = d.whole /\ m.block512 = d.block512
        /\ d.mounted = (d.name \in mounted)

\* What the loop has still to look at, by name.
Pending == {e.name : e \in left}
InHand == IF pc = "describe" THEN {device.name} ELSE {}

\* As long as nothing happens behind the program's back, what it has seen is
\* what there is, and every drive that fits is still to be visited, in hand,
\* listed once, or has met a full list.
QuietList ==
  events = 0 =>
    /\ Consistent(attached)
    /\ \A e \in left : e.medium = attached[e.name]
    /\ pc = "describe" =>
         /\ device.medium = attached[device.name]
         /\ device.known = identity_matches(device.medium)
    /\ \A i \in DOMAIN list :
         list[i].medium = attached[list[i].name] /\ TrueTo(list[i])
    /\ \A i \in DOMAIN list : list[i].name \notin Pending \cup InHand
    /\ Pending \cap InHand = {}
    /\ \A i, j \in DOMAIN list : list[i].name = list[j].name => i = j

EveryDriveListed ==
  events = 0 /\ pc \notin {"start", "done"} =>
    \A n \in Attached : identity_matches(attached[n]) =>
      \/ n \in Pending \cup InHand
      \/ \E i \in DOMAIN list : list[i].name = n
      \/ Len(list) = MaxDevices

\* Without events the interface is the one above the device's medium.
QuietInterface ==
  events = 0 /\ pc \in {"seize", "seized"} =>
    interface = attached[device.name].drive

\* The reasons there are to refuse with code 2.
ReasonToRefuse ==
  LET m == attached[request.name]
  IN  \/ request.prefix \notin Spellings
      \/ ~(m.teac /\ m.named /\ m.external /\ m.removable /\ m.whole
             /\ m.block512 /\ m.ufi)
      \/ request.name \in mounted
      \/ \E i \in DOMAIN list : /\ list[i].name = request.name
                                /\ ~list[i].external
      \/ Len(list) = MaxDevices
      \/ interface = m.drive

QuietRefusal ==
  events = 0 /\ pc = "done" /\ exit = 2 /\ request # NoRequest =>
    ReasonToRefuse

ProgramInv ==
  /\ ProgramTypeOK
  /\ ListIdentified
  /\ DeviceAccepted
  /\ QuietList
  /\ EveryDriveListed
  /\ QuietInterface
  /\ QuietRefusal

\* A sequence of two is given by its two parts.
LEMMA TwoParts ==
  ASSUME NEW p \in Seq(STRING), Len(p) = 2
  PROVE  p = <<p[1], p[2]>>
OBVIOUS

\* What the sequence with the one part "r" is.
LEMMA OnePart ==
  ASSUME NEW t, t = <<"r">>
  PROVE  Len(t) = 1 /\ t[1] = "r"
OBVIOUS

\* One "/dev/" and one "r" are taken off, in this order, and nothing else.
LEMMA StripSpelling ==
  ASSUME NEW p \in Seq(STRING)
  PROVE  StripDev(p) \in {<< >>, <<"r">>} <=> p \in Spellings
  <1>1. CASE p = << >>
    BY <1>1 DEF StripDev, Spellings
  <1>2. CASE p # << >>
    <2>1. Len(p) \in Nat \ {0} /\ Len(Tail(p)) = Len(p) - 1 /\ Head(p) = p[1]
      BY <1>2
    <2>2. CASE Head(p) = "/dev/"
      <3>1. StripDev(p) = Tail(p)
        BY <1>2, <2>2 DEF StripDev
      <3>2. Tail(p) = << >> <=> p = <<"/dev/">>
        BY <1>2, <2>1, <2>2
      <3>3. Tail(p) = <<"r">> <=> p = <<"/dev/", "r">>
        <4>1. ASSUME Tail(p) = <<"r">> PROVE p = <<"/dev/", "r">>
          <5>1. Len(p) = 2 /\ p[2] = Tail(p)[1]
            BY <1>2, <2>1, <4>1
          <5>2. p[1] = "/dev/" /\ p[2] = "r"
            BY <2>1, <2>2, <4>1, <5>1, OnePart
          <5>3. p = <<p[1], p[2]>>
            BY <5>1, TwoParts
          <5> QED
            BY <5>2, <5>3
        <4>2. Tail(<<"/dev/", "r">>) = <<"r">>
          OBVIOUS
        <4> QED
          BY <4>1, <4>2
      <3>4. p # <<"r">>
        BY <2>2
      <3> QED
        BY <1>2, <3>1, <3>2, <3>3, <3>4 DEF Spellings
    <2>3. CASE Head(p) # "/dev/"
      <3>1. StripDev(p) = p
        BY <2>3 DEF StripDev
      <3>2. p # <<"/dev/">> /\ p # <<"/dev/", "r">>
        BY <2>3
      <3> QED
        BY <3>1, <3>2 DEF Spellings
    <2> QED
      BY <2>2, <2>3
  <1> QED
    BY <1>1, <1>2

\* normalize_bsd_name makes of a request the plain name in exactly the four
\* usual spellings.
LEMMA NormalName ==
  ASSUME NEW r \in Requests, NEW n
  PROVE  normalize_bsd_name(r) = [prefix |-> << >>, name |-> n] <=>
           r.name = n /\ r.prefix \in Spellings
  <1>1. r = [prefix |-> r.prefix, name |-> r.name] /\ r.prefix \in Seq(STRING)
    BY ProgramAssumption DEF Requests
  <1> DEFINE q == StripDev(r.prefix)
             s == IF q = <<"r">> THEN << >> ELSE q
  <1>2. normalize_bsd_name(r) = [prefix |-> s, name |-> r.name]
    BY <1>1 DEF normalize_bsd_name
  <1>3. s = << >> <=> r.prefix \in Spellings
    BY <1>1, StripSpelling
  <1> HIDE DEF s
  <1> QED
    BY <1>2, <1>3

\* A medium's fields are Boolean, NoMedium's too.
LEMMA MediumFields ==
  ASSUME NEW m \in Media \cup {NoMedium}
  PROVE  /\ m.external \in BOOLEAN /\ m.removable \in BOOLEAN
         /\ m.whole \in BOOLEAN /\ m.block512 \in BOOLEAN
         /\ identity_matches(m) \in BOOLEAN
         /\ m.drive \in Nat
         /\ m # NoMedium => m \in Media
  <1>1. CASE m \in Media
    <2>1. /\ m.drive \in Nat \ {0}
          /\ \A f \in {m.teac, m.named, m.ufi, m.external, m.removable,
                      m.whole, m.block512} : f \in BOOLEAN
      BY <1>1, ProgramAssumption DEF IsMedium
    <2>2. /\ m.external \in BOOLEAN /\ m.removable \in BOOLEAN
          /\ m.whole \in BOOLEAN /\ m.block512 \in BOOLEAN
      BY <2>1
    <2> QED
      BY <1>1, <2>1, <2>2 DEF identity_matches
  <1>2. CASE m = NoMedium
    BY <1>2 DEF NoMedium, identity_matches
  <1> QED
    BY <1>1, <1>2

\* What m65_select_device returns is an entry it matches.
LEMMA SelectedMatches ==
  ASSUME Selected # NoDevice
  PROVE  \E i \in DOMAIN list : Selected = list[i] /\ Matches(list[i])
  <1> DEFINE hits == {i \in DOMAIN list : Matches(list[i])}
  <1>1. Cardinality(hits) = 1 /\ Selected = list[CHOOSE i \in hits : TRUE]
    BY DEF Selected
  <1>2. hits # {}
    BY <1>1, FS_EmptySet
  <1>3. (CHOOSE i \in hits : TRUE) \in hits
    BY <1>2
  <1> QED
    BY <1>1, <1>3

\* Where one entry matches, m65_select_device returns it.
LEMMA SelectedUnique ==
  ASSUME NEW i \in DOMAIN list, Matches(list[i]),
         \A j \in DOMAIN list : Matches(list[j]) => j = i
  PROVE  Selected = list[i]
  <1> DEFINE hits == {j \in DOMAIN list : Matches(list[j])}
  <1>1. hits = {i}
    OBVIOUS
  <1>2. Cardinality(hits) = 1
    BY <1>1, FS_Singleton
  <1>3. (CHOOSE j \in hits : TRUE) = i
    BY <1>1
  <1> QED
    BY <1>2, <1>3 DEF Selected
-----------------------------------------------------------------------------

\* main has parsed its line and not looked at a device.
LEMMA ProgramInitInv == ProgramInit => ProgramInv
  <1> SUFFICES ASSUME ProgramInit PROVE ProgramInv
    OBVIOUS
  <1>1. ProgramTypeOK
    BY DEF ProgramInit, ProgramTypeOK, NoDevice, Device
  <1>2. ListIdentified /\ DeviceAccepted
    BY ProgramAssumption DEF ProgramInit, ListIdentified, DeviceAccepted
  <1>3. QuietList /\ EveryDriveListed /\ QuietInterface /\ QuietRefusal
    BY DEF ProgramInit, QuietList, EveryDriveListed, QuietInterface,
         QuietRefusal, Pending, InHand
  <1> QED
    BY <1>1, <1>2, <1>3 DEF ProgramInv

\* A change of the registry or of the mounts ends the quiet and leaves the
\* program's own state alone.
LEMMA EventInv ==
  ASSUME ProgramInv, Event,
         attached' \in [AllNames -> Media \cup {NoMedium}]
  PROVE  ProgramInv'
  <1> USE DEF ProgramInv
  <1>1. /\ events' = events + 1
        /\ UNCHANGED <<pc, request, left, device, list, interface, seized,
                       exit>>
    BY DEF Event, found
  <1>2. ProgramTypeOK' /\ events' # 0
    BY <1>1 DEF ProgramTypeOK
  <1>3. ListIdentified'
    BY <1>1 DEF ListIdentified
  <1>4. DeviceAccepted'
    BY <1>1 DEF DeviceAccepted, Matches
  <1>5. QuietList' /\ EveryDriveListed' /\ QuietInterface' /\ QuietRefusal'
    BY <1>2 DEF QuietList, EveryDriveListed, QuietInterface, QuietRefusal
  <1> QED
    BY <1>2, <1>3, <1>4, <1>5

\* Media come and go and are mounted.
LEMMA WorldInv ==
  ASSUME ProgramInv,
         \/ \E n \in AllNames, m \in Media : Plug(n, m)
         \/ \E m \in Media : Unplug(m.drive)
         \/ \E n \in AllNames : Mount(n) \/ Unmount(n)
  PROVE  ProgramInv'
  <1>1. attached \in [AllNames -> Media \cup {NoMedium}]
    BY DEF ProgramInv, ProgramTypeOK
  <1>2. Event
    BY DEF Plug, Unplug, Mount, Unmount
  <1>3. attached' \in [AllNames -> Media \cup {NoMedium}]
    BY <1>1 DEF Plug, Unplug, Mount, Unmount
  <1> QED
    BY <1>2, <1>3, EventInv

\* The program ends before it has seized anything.
LEMMA ExitInv ==
  ASSUME ProgramInv, NEW code, Exit(code), pc # "seized",
         events = 0 /\ code = 2 /\ request # NoRequest => ReasonToRefuse
  PROVE  ProgramInv'
  <1> USE DEF ProgramInv
  <1>1. /\ pc' = "done" /\ exit' = code
        /\ UNCHANGED <<attached, mounted, events, request, left, device, list,
                       interface, seized>>
    BY DEF Exit, world, found
  <1>2. ProgramTypeOK'
    BY <1>1 DEF ProgramTypeOK
  <1>3. ListIdentified'
    BY <1>1 DEF ListIdentified
  <1>4. DeviceAccepted'
    BY <1>1 DEF DeviceAccepted
  <1>5. QuietList'
    BY <1>1 DEF QuietList, Pending, InHand, TrueTo, Consistent
  <1>6. QuietRefusal'
    BY <1>1 DEF QuietRefusal, ReasonToRefuse
  <1>7. EveryDriveListed' /\ QuietInterface'
    BY <1>1 DEF EveryDriveListed, QuietInterface
  <1> QED
    BY <1>2, <1>3, <1>4, <1>5, <1>6, <1>7

\* The media of the moment are still to be visited, each under its name.
LEMMA EnumerateInv ==
  ASSUME ProgramInv, Enumerate
  PROVE  ProgramInv'
  <1> USE DEF ProgramInv
  <1>1. /\ pc = "start" /\ pc' = "next"
        /\ left' = {[name |-> n, medium |-> attached[n]] : n \in Attached}
        /\ UNCHANGED <<attached, mounted, events, request, device, list,
                       interface, seized, exit>>
    BY DEF Enumerate, world
  <1>2. list = << >>
    BY <1>1 DEF ListIdentified
  <1>3. \A n \in Attached : attached[n] \in Media /\ n \in AllNames
    BY DEF ProgramTypeOK, Attached
  <1>4. ProgramTypeOK'
    BY <1>1, <1>3 DEF ProgramTypeOK, Entry
  <1>5. ListIdentified' /\ DeviceAccepted'
    BY <1>1 DEF ListIdentified, DeviceAccepted
  <1>6. /\ \A e \in left' : e.medium = attached[e.name]
        /\ Pending' = Attached /\ InHand' = {}
    <2>1. \A e \in left' : e.medium = attached[e.name] /\ e.name \in Attached
      BY <1>1
    <2>2. ASSUME NEW n \in Attached PROVE \E e \in left' : e.name = n
      <3>1. [name |-> n, medium |-> attached[n]] \in left'
        BY <1>1
      <3> QED
        BY <3>1
    <2>3. Pending' = Attached
      BY <2>1, <2>2 DEF Pending
    <2> QED
      BY <1>1, <2>1, <2>3 DEF InHand
  <1>7. QuietList'
    BY <1>1, <1>2, <1>6 DEF QuietList, Consistent
  <1>8. EveryDriveListed' /\ QuietInterface' /\ QuietRefusal'
    BY <1>1, <1>6 DEF EveryDriveListed, QuietInterface, QuietRefusal, Attached
  <1> QED
    BY <1>4, <1>5, <1>7, <1>8

\* One object is taken in hand.
LEMMA IdentifyInv ==
  ASSUME ProgramInv, NEW e \in left, Identify(e)
  PROVE  ProgramInv'
  <1> USE DEF ProgramInv
  <1>1. PICK known \in {identity_matches(e.medium)}
                         \cup (IF attached[e.name] = e.medium THEN {}
                               ELSE {FALSE}) :
          device' = [NoDevice EXCEPT !.name = e.name, !.medium = e.medium,
                                     !.known = known]
    BY DEF Identify
  <1>2. /\ pc = "next" /\ pc' = "describe" /\ left' = left \ {e}
        /\ UNCHANGED <<attached, mounted, events, request, list, interface,
                       seized, exit>>
    BY DEF Identify, world
  <1>3. e \in Entry /\ e.name \in AllNames /\ e.medium \in Media
    BY DEF ProgramTypeOK, Entry
  <1>4. /\ known \in BOOLEAN
        /\ known => identity_matches(e.medium)
        /\ attached[e.name] = e.medium => known = identity_matches(e.medium)
    BY <1>3, MediumFields
  <1>5. /\ device' \in Device
        /\ device'.name = e.name /\ device'.medium = e.medium
        /\ device'.known = known
    BY <1>1, <1>3, <1>4 DEF Device, NoDevice
  <1>6. ProgramTypeOK'
    BY <1>2, <1>5 DEF ProgramTypeOK
  <1>7. ListIdentified'
    BY <1>1, <1>2, <1>3, <1>4, <1>5 DEF ListIdentified
  <1>8. DeviceAccepted'
    BY <1>2 DEF DeviceAccepted
  <1>9. QuietInterface' /\ QuietRefusal'
    BY <1>2 DEF QuietInterface, QuietRefusal
  <1>10. /\ InHand = {} /\ InHand' = {e.name} /\ e.name \in Pending
         /\ Pending' \subseteq Pending
         /\ Pending \subseteq Pending' \cup {e.name}
    BY <1>2, <1>5 DEF InHand, Pending
  <1>11. ASSUME events = 0
         PROVE  /\ e.medium = attached[e.name]
                /\ e.name \notin Pending'
    BY <1>2, <1>3, <1>11 DEF QuietList, Pending, ProgramTypeOK, Entry
  <1>12. QuietList'
    <2> SUFFICES ASSUME events = 0 PROVE QuietList'
      BY <1>2 DEF QuietList
    <2>1. Consistent(attached)'
      BY <1>2 DEF QuietList, Consistent
    <2>2. \A f \in left' : f.medium = attached'[f.name]
      BY <1>2 DEF QuietList
    <2>3. /\ device'.medium = attached'[device'.name]
          /\ device'.known = identity_matches(device'.medium)
      BY <1>2, <1>4, <1>5, <1>11
    <2>4. \A i \in DOMAIN list' :
            list'[i].medium = attached'[list'[i].name] /\ TrueTo(list[i])'
      BY <1>2 DEF QuietList, TrueTo
    <2>5. /\ \A i \in DOMAIN list' : list'[i].name \notin Pending' \cup InHand'
          /\ Pending' \cap InHand' = {}
          /\ \A i, j \in DOMAIN list' : list'[i].name = list'[j].name => i = j
      BY <1>2, <1>10, <1>11 DEF QuietList
    <2> QED
      BY <2>1, <2>2, <2>3, <2>4, <2>5 DEF QuietList
  <1>13. EveryDriveListed'
    BY <1>2, <1>10 DEF EveryDriveListed, Attached
  <1> QED
    BY <1>6, <1>7, <1>8, <1>9, <1>12, <1>13

\* The object in hand is described and, if it was identified and there is
\* room, listed.
LEMMA DescribeInv ==
  ASSUME ProgramInv, Describe
  PROVE  ProgramInv'
  <1> USE DEF ProgramInv
  <1>1. PICK d \in {Undescribed(device)}
                     \cup (IF device.name \in Attached
                           THEN {Described(device, device.name)} ELSE {}) :
          list' = IF d.known /\ HasRoom THEN Append(list, d) ELSE list
    BY DEF Describe
  <1>2. /\ pc = "describe" /\ pc' = "next" /\ device' = NoDevice
        /\ UNCHANGED <<attached, mounted, events, request, left, interface,
                       seized, exit>>
    BY DEF Describe, world
  <1>3. device \in Device /\ device.name \in AllNames /\ ~device.external
    BY <1>2 DEF ProgramTypeOK, ListIdentified, NoDevice, Entry
  <1>4. /\ d \in Device /\ d.name = device.name /\ d.medium = device.medium
        /\ d.known = device.known
        /\ TrueTo(d)
    <2>1. CASE d = device
      BY <1>3, <2>1 DEF TrueTo
    <2>2. CASE d = Described(device, device.name)
      <3> DEFINE m == attached[device.name]
      <3>1. m \in Media \cup {NoMedium}
        BY <1>3 DEF ProgramTypeOK
      <3>2. /\ m.external \in BOOLEAN /\ m.removable \in BOOLEAN
            /\ m.whole \in BOOLEAN /\ m.block512 \in BOOLEAN
        BY <3>1, MediumFields
      <3>3. d = [device EXCEPT !.external = m.external,
                   !.removable = m.removable, !.whole = m.whole,
                   !.block512 = m.block512,
                   !.mounted = device.name \in mounted]
        BY <2>2 DEF Described
      <3> DEFINE mt == device.name \in mounted
      <3>4. mt \in BOOLEAN
        OBVIOUS
      <3>5. d \in Device /\ d.name = device.name /\ d.medium = device.medium
            /\ d.known = device.known
        BY <1>3, <3>2, <3>3, <3>4 DEF Device
      <3>6. /\ d.external = m.external /\ d.removable = m.removable
            /\ d.whole = m.whole /\ d.block512 = m.block512
            /\ d.mounted = mt
        BY <1>3, <3>3 DEF Device
      <3> QED
        BY <3>5, <3>6 DEF TrueTo
    <2> QED
      BY <2>1, <2>2 DEF Undescribed
  <1>5. device' \in Device
    BY <1>2 DEF Device, NoDevice
  <1> DEFINE add == d.known /\ HasRoom
  <1>6. list \in Seq(Device) /\ Len(list) <= MaxDevices /\ MaxDevices \in Nat
    BY ProgramAssumption DEF ProgramTypeOK, ListIdentified
  <1>7. ASSUME add
        PROVE  /\ list' = Append(list, d) /\ Len(list) < MaxDevices
               /\ list' \in Seq(Device) /\ Len(list') = Len(list) + 1
               /\ DOMAIN list' = DOMAIN list \cup {Len(list) + 1}
               /\ Len(list) + 1 \notin DOMAIN list
               /\ list'[Len(list) + 1] = d
               /\ \A i \in DOMAIN list : list'[i] = list[i]
    BY <1>1, <1>4, <1>6, <1>7 DEF HasRoom
  <1>8. ~add => list' = list
    BY <1>1
  <1> HIDE DEF add
  <1>9. list' \in Seq(Device) /\ Len(list') <= MaxDevices
    BY <1>6, <1>7, <1>8
  <1>10. \A i \in DOMAIN list' :
           \/ i \in DOMAIN list /\ list'[i] = list[i]
           \/ add /\ i = Len(list) + 1 /\ list'[i] = d
    BY <1>7, <1>8
  <1>11. add => d.known
    BY DEF add
  <1>12. ProgramTypeOK'
    BY <1>2, <1>5, <1>9 DEF ProgramTypeOK
  <1>13. ListIdentified'
    BY <1>2, <1>3, <1>4, <1>9, <1>10, <1>11 DEF ListIdentified
  <1>14. DeviceAccepted' /\ QuietInterface' /\ QuietRefusal'
    BY <1>2 DEF DeviceAccepted, QuietInterface, QuietRefusal
  <1>15. /\ Pending' = Pending /\ InHand = {d.name} /\ InHand' = {}
    BY <1>2, <1>4 DEF Pending, InHand
  <1>16. QuietList'
    <2> SUFFICES ASSUME events = 0 PROVE QuietList'
      BY <1>2 DEF QuietList
    <2>1. Consistent(attached)' /\ \A f \in left' : f.medium = attached'[f.name]
      BY <1>2 DEF QuietList, Consistent
    <2>2. d.medium = attached[d.name]
      BY <1>2, <1>4 DEF QuietList
    <2>3. \A i \in DOMAIN list : TrueTo(list[i])
      BY DEF QuietList
    <2>4. ASSUME NEW i \in DOMAIN list'
          PROVE  /\ list'[i].medium = attached'[list'[i].name]
                 /\ TrueTo(list[i])'
      <3>1. list'[i].medium = attached[list'[i].name] /\ TrueTo(list'[i])
        BY <1>4, <1>10, <2>2, <2>3 DEF QuietList
      <3> QED
        BY <1>2, <3>1 DEF TrueTo
    <2>5. ASSUME NEW i \in DOMAIN list'
          PROVE  list'[i].name \notin Pending' \cup InHand'
      BY <1>10, <1>15 DEF QuietList
    <2>6. ASSUME NEW i \in DOMAIN list', NEW j \in DOMAIN list',
                 list'[i].name = list'[j].name
          PROVE  i = j
      BY <1>10, <1>15, <2>6 DEF QuietList
    <2> QED
      BY <1>2, <1>15, <2>1, <2>4, <2>5, <2>6 DEF QuietList
  <1>17. EveryDriveListed'
    <2> SUFFICES ASSUME events = 0, NEW n \in Attached,
                        identity_matches(attached[n]), Len(list') # MaxDevices
                 PROVE  \/ n \in Pending' \cup InHand'
                        \/ \E i \in DOMAIN list' : list'[i].name = n
      BY <1>2 DEF EveryDriveListed, Attached
    <2>1. Len(list) # MaxDevices
      BY <1>6, <1>7, <1>8
    <2>2. \/ n \in Pending \cup InHand
          \/ \E i \in DOMAIN list : list[i].name = n
      BY <1>2, <2>1 DEF EveryDriveListed
    <2>3. CASE n = d.name
      <3>1. d.known
        BY <1>2, <1>4, <2>3 DEF QuietList
      <3>2. HasRoom
        BY <1>6, <2>1 DEF HasRoom
      <3>3. add
        BY <3>1, <3>2 DEF add
      <3> QED
        BY <1>7, <2>3, <3>3
    <2> QED
      BY <1>7, <1>8, <1>15, <2>2, <2>3
  <1> QED
    BY <1>12, <1>13, <1>14, <1>16, <1>17

\* An undisturbed refusal of the request has one of the reasons.
LEMMA RefusalHasReason ==
  ASSUME ProgramInv, events = 0, Discovered, request # NoRequest,
         Selected = NoDevice \/ ~validate_device(Selected)
  PROVE  ReasonToRefuse
  <1> USE DEF ProgramInv
  <1> SUFFICES ASSUME ~ReasonToRefuse PROVE FALSE
    OBVIOUS
  <1> DEFINE n == request.name
             m == attached[n]
  <1>1. request \in Requests /\ n \in AllNames
    BY DEF ProgramTypeOK, Requests
  <1>2. /\ request.prefix \in Spellings
        /\ m.teac /\ m.named /\ m.external /\ m.removable /\ m.whole
        /\ m.block512
        /\ n \notin mounted
        /\ \A i \in DOMAIN list : list[i].name = n => list[i].external
        /\ Len(list) # MaxDevices
    BY DEF ReasonToRefuse
  <1>3. n \in Attached /\ identity_matches(attached[n])
    BY <1>1, <1>2 DEF Attached, NoMedium, identity_matches
  <1>4. Pending = {} /\ InHand = {} /\ pc = "next"
    BY DEF Discovered, Pending, InHand
  <1>5. PICK i \in DOMAIN list : list[i].name = n
    BY <1>2, <1>3, <1>4 DEF EveryDriveListed
  <1>6. list[i].known /\ list[i].external /\ TrueTo(list[i])
    BY <1>2, <1>5 DEF ListIdentified, QuietList
  <1>7. /\ list[i].removable = m.removable /\ list[i].whole = m.whole
        /\ list[i].block512 = m.block512 /\ list[i].mounted = (n \in mounted)
    BY <1>5, <1>6 DEF TrueTo
  <1>8. validate_device(list[i])
    BY <1>2, <1>6, <1>7 DEF validate_device
  <1>9. Matches(list[i])
    BY <1>1, <1>2, <1>5, <1>6, NormalName DEF Matches
  <1>10. ASSUME NEW j \in DOMAIN list, Matches(list[j]) PROVE j = i
    <2>1. list[j].name = n
      BY <1>1, <1>10, NormalName DEF Matches
    <2> QED
      BY <1>5, <2>1 DEF QuietList
  <1>11. Selected = list[i]
    BY <1>9, <1>10, SelectedUnique
  <1>12. list[i] # NoDevice
    BY <1>6 DEF NoDevice
  <1> QED
    BY <1>8, <1>11, <1>12

\* An accepted device's name is the request's.
LEMMA AcceptedName ==
  ASSUME ProgramInv, pc \in {"create", "seize", "seized"}
  PROVE  /\ device.name = request.name /\ device.name \in AllNames
         /\ request \in Requests /\ request.prefix \in Spellings
  <1>1. request \in Requests /\ Matches(device)
    BY DEF ProgramInv, ProgramTypeOK, DeviceAccepted
  <1>2. device.name = request.name /\ request.prefix \in Spellings
    BY <1>1, NormalName DEF Matches
  <1> QED
    BY <1>1, <1>2 DEF Requests

\* Every way out before the seize.
LEMMA EarlyExitInv ==
  ASSUME ProgramInv,
         UsageError \/ DiscoveryFails \/ ListDevices \/ RefuseDevice
           \/ NoInterface \/ SeizeFails
  PROVE  ProgramInv'
  <1>1. CASE UsageError \/ DiscoveryFails
    BY <1>1, ExitInv DEF UsageError, DiscoveryFails
  <1>2. CASE ListDevices
    BY <1>2, ExitInv DEF ListDevices, Discovered
  <1>3. CASE RefuseDevice
    BY <1>3, ExitInv, RefusalHasReason DEF RefuseDevice, Discovered
  <1>4. CASE NoInterface
    <2>1. pc = "create" /\ Exit(2) /\ device.name = request.name
          /\ device.name \in AllNames
      BY <1>4, AcceptedName DEF NoInterface
    <2>2. ~(attached[request.name].teac /\ attached[request.name].ufi)
      BY <1>4, <2>1 DEF NoInterface, Attached, NoMedium,
           is_known_ufi_cbi_interface
    <2>3. ReasonToRefuse
      BY <2>2 DEF ReasonToRefuse
    <2> QED
      BY <2>1, <2>3, ExitInv
  <1>5. CASE SeizeFails
    <2>1. pc = "seize" /\ device.name = request.name
      BY <1>5, AcceptedName DEF SeizeFails
    <2>2. events = 0 => ReasonToRefuse
      BY <2>1 DEF ProgramInv, QuietInterface, ReasonToRefuse
    <2> QED
      BY <1>5, <2>1, <2>2, ExitInv DEF SeizeFails
  <1> QED
    BY <1>1, <1>2, <1>3, <1>4, <1>5

\* The device is selected and valid.
LEMMA AcceptDeviceInv ==
  ASSUME ProgramInv, AcceptDevice
  PROVE  ProgramInv'
  <1> USE DEF ProgramInv
  <1>1. /\ pc = "next" /\ pc' = "create" /\ request # NoRequest
        /\ Selected # NoDevice /\ validate_device(Selected)
        /\ device' = Selected
        /\ UNCHANGED <<attached, mounted, events, request, left, list,
                       interface, seized, exit>>
    BY DEF AcceptDevice, Discovered, world
  <1>2. PICK i \in DOMAIN list : Selected = list[i] /\ Matches(list[i])
    BY <1>1, SelectedMatches
  <1>3. device' \in Device
    BY <1>1, <1>2 DEF ProgramTypeOK
  <1>4. ProgramTypeOK'
    BY <1>1, <1>3 DEF ProgramTypeOK
  <1>5. ListIdentified'
    BY <1>1 DEF ListIdentified
  <1>6. Matches(device)' /\ validate_device(device)'
    BY <1>1, <1>2 DEF Matches, validate_device
  <1>7. DeviceAccepted'
    BY <1>1, <1>2, <1>6 DEF DeviceAccepted
  <1>8. Pending' = Pending /\ InHand' = InHand
    BY <1>1 DEF Pending, InHand
  <1>9. QuietList'
    BY <1>1, <1>8 DEF QuietList, TrueTo, Consistent
  <1>10. EveryDriveListed' /\ QuietInterface' /\ QuietRefusal'
    BY <1>1, <1>8 DEF EveryDriveListed, QuietInterface, QuietRefusal, Attached
  <1> QED
    BY <1>4, <1>5, <1>7, <1>9, <1>10

\* The interface is looked up by name, and seized.
LEMMA SeizeInv ==
  ASSUME ProgramInv, LookUp \/ Seize
  PROVE  ProgramInv'
  <1> USE DEF ProgramInv
  <1>1. /\ pc \in {"create", "seize"} /\ pc' \in {"seize", "seized"}
        /\ UNCHANGED <<attached, mounted, events, request, left, device, list,
                       exit>>
    BY DEF LookUp, Seize, world, found
  <1>2. device.name \in AllNames
    BY <1>1, AcceptedName
  <1>3. /\ interface' \in Nat /\ seized' \in Nat
        /\ \E m \in Media :
             m.drive = interface' /\ is_known_ufi_cbi_interface(m)
        /\ seized' # 0 => pc' = "seized" /\ seized' = interface'
        /\ events = 0 => interface' = attached[device.name].drive
    <2>1. CASE LookUp
      <3>1. /\ pc = "create" /\ seized' = seized
            /\ interface' = attached[device.name].drive
            /\ is_known_ufi_cbi_interface(attached[device.name])
            /\ device.name \in Attached
        BY <2>1 DEF LookUp
      <3>2. attached[device.name] \in Media
        BY <1>2, <3>1 DEF ProgramTypeOK, Attached
      <3>3. interface' \in Nat
        BY <3>1, <3>2, MediumFields
      <3>4. seized' = 0
        BY <3>1 DEF DeviceAccepted
      <3> QED
        BY <3>1, <3>2, <3>3, <3>4
    <2>2. CASE Seize
      BY <2>2 DEF Seize, ProgramTypeOK, DeviceAccepted, QuietInterface
    <2> QED
      BY <2>1, <2>2
  <1>4. ProgramTypeOK'
    BY <1>1, <1>3 DEF ProgramTypeOK
  <1>5. ListIdentified'
    BY <1>1 DEF ListIdentified
  <1>6. DeviceAccepted'
    BY <1>1, <1>3 DEF DeviceAccepted, Matches
  <1>7. Pending' = Pending /\ InHand' = InHand
    BY <1>1 DEF Pending, InHand
  <1>8. QuietList'
    BY <1>1, <1>7 DEF QuietList, TrueTo, Consistent
  <1>9. EveryDriveListed' /\ QuietInterface' /\ QuietRefusal'
    BY <1>1, <1>3, <1>7 DEF EveryDriveListed, QuietInterface, QuietRefusal,
         Attached
  <1> QED
    BY <1>4, <1>5, <1>6, <1>8, <1>9

\* The workflow is over and the interface closed.
LEMMA FinishedInv ==
  ASSUME ProgramInv, Workflow
  PROVE  ProgramInv'
  <1> USE DEF ProgramInv
  <1>1. /\ pc = "seized" /\ pc' = "done" /\ seized' = 0
        /\ UNCHANGED <<attached, mounted, events, request, left, device, list,
                       interface>>
    BY DEF Workflow, world, found
  <1>2. events = 0 => ReasonToRefuse
    BY <1>1, AcceptedName DEF QuietInterface, ReasonToRefuse
  <1>3. ProgramTypeOK'
    BY <1>1 DEF ProgramTypeOK
  <1>4. ListIdentified'
    BY <1>1 DEF ListIdentified
  <1>5. DeviceAccepted'
    BY <1>1 DEF DeviceAccepted
  <1>6. Pending' = Pending /\ InHand' = InHand
    BY <1>1 DEF Pending, InHand
  <1>7. QuietList'
    BY <1>1, <1>6 DEF QuietList, TrueTo, Consistent
  <1>8. QuietRefusal'
    BY <1>1, <1>2 DEF QuietRefusal, ReasonToRefuse
  <1>9. EveryDriveListed' /\ QuietInterface'
    BY <1>1 DEF EveryDriveListed, QuietInterface
  <1> QED
    BY <1>3, <1>4, <1>5, <1>7, <1>8, <1>9

\* Discovery, selection, the seize and outside events keep ProgramInv.
LEMMA ProgramNextInv == ProgramInv /\ [ProgramNext]_progvars => ProgramInv'
  <1> SUFFICES ASSUME ProgramInv, [ProgramNext]_progvars PROVE ProgramInv'
    OBVIOUS
  <1>1. CASE UNCHANGED progvars
    <2>1. UNCHANGED <<attached, mounted, events, pc, request, left, device,
                      list, interface, seized, exit>>
      BY <1>1 DEF progvars, world, found
    <2>2. ProgramTypeOK'
      BY <2>1 DEF ProgramInv, ProgramTypeOK
    <2>3. ListIdentified' /\ DeviceAccepted'
      BY <2>1 DEF ProgramInv, ListIdentified, DeviceAccepted, Matches
    <2>4. Pending' = Pending /\ InHand' = InHand
      BY <2>1 DEF Pending, InHand
    <2>5. QuietList'
      BY <2>1, <2>4 DEF ProgramInv, QuietList, TrueTo, Consistent
    <2>6. EveryDriveListed' /\ QuietInterface' /\ QuietRefusal'
      BY <2>1, <2>4 DEF ProgramInv, EveryDriveListed, QuietInterface,
           QuietRefusal, ReasonToRefuse, Attached
    <2> QED
      BY <2>2, <2>3, <2>5, <2>6 DEF ProgramInv
  <1> QED
    BY <1>1, WorldInv, EnumerateInv, IdentifyInv, DescribeInv, EarlyExitInv,
       AcceptDeviceInv, SeizeInv, FinishedInv DEF ProgramNext

\* The inductive invariant of the way from discovery to the seize.
THEOREM ProgramInvariant == ProgramSpec => []ProgramInv
BY ProgramInitInv, ProgramNextInv, PTL DEF ProgramSpec

\* Whatever media come, go and take over names between two calls, an interface
\* that copy_usb_interface_for_bsd_name finds and the transport seizes is that
\* of a TEAC UFI/CBI drive, and the run got there through an entry of the list
\* that the user named and m65_validate_device accepted.
THEOREM SeizedIsAccepted == ProgramSpec => []SeizedWasAccepted
  <1>1. ASSUME ProgramInv PROVE SeizedWasAccepted
    <2> USE DEF ProgramInv
    <2> SUFFICES ASSUME seized # 0
                 PROVE  /\ \A m \in Media : m.drive = seized => m.teac /\ m.ufi
                        /\ \E i \in DOMAIN list :
                             /\ list[i] = device
                             /\ device.name = request.name
                             /\ request.prefix \in Spellings
                             /\ device.external /\ device.removable
                             /\ device.whole /\ device.block512
                             /\ ~device.mounted
                             /\ device.medium.teac /\ device.medium.named
      BY <1>1 DEF SeizedWasAccepted, ListIdentified
    <2>1. pc = "seized" /\ seized = interface
      BY <1>1 DEF DeviceAccepted
    <2>2. PICK k \in Media : k.drive = interface /\ k.teac /\ k.ufi
      BY <1>1, <2>1 DEF DeviceAccepted, is_known_ufi_cbi_interface
    <2>3. \A m \in Media : m.drive = seized => m.teac /\ m.ufi
      BY <2>1, <2>2, ProgramAssumption
    <2>4. PICK i \in DOMAIN list : list[i] = device
      BY <1>1, <2>1 DEF DeviceAccepted
    <2>5. device.medium.teac /\ device.medium.named
      BY <1>1, <2>4 DEF ListIdentified, identity_matches
    <2>6. validate_device(device)
      BY <1>1, <2>1 DEF DeviceAccepted
    <2> QED
      BY <1>1, <2>1, <2>3, <2>4, <2>5, <2>6, AcceptedName DEF validate_device
  <1> QED
    BY <1>1, ProgramInvariant, PTL

\* An undisturbed run of discovery, m65_select_device, m65_validate_device and
\* the second look-up seizes the drive the user named, and refuses it with
\* code 2 only for a reason the user can see.
THEOREM QuietRunRight == ProgramSpec => []QuietRunIsRight
  <1>1. ASSUME ProgramInv, events = 0, seized # 0
        PROVE  /\ SeizedIsVerified
               /\ WholeNameOf(seized) = {request.name}
               /\ request.name \notin mounted
    <2> USE DEF ProgramInv
    <2>1. pc = "seized" /\ seized = interface
      BY <1>1 DEF DeviceAccepted
    <2>2. device.name = request.name /\ device.name \in AllNames
      BY <1>1, <2>1, AcceptedName
    <2>3. PICK i \in DOMAIN list : list[i] = device
      BY <1>1, <2>1 DEF DeviceAccepted
    <2>4. seized = attached[device.name].drive
      BY <1>1, <2>1 DEF QuietInterface
    <2>5. device.medium = attached[device.name] /\ TrueTo(device)
      BY <1>1, <2>3 DEF QuietList
    <2>6. device.external /\ device.whole /\ ~device.mounted
      BY <1>1, <2>1 DEF DeviceAccepted, validate_device
    <2>7. attached[device.name].whole /\ device.name \notin mounted
      BY <2>5, <2>6 DEF TrueTo
    <2>8. device.name \in Attached
      BY <2>2, <2>7 DEF Attached, NoMedium
    <2>9. Consistent(attached)
      BY <1>1 DEF QuietList
    <2>10. \A n \in WholeNameOf(seized) : n = device.name
      BY <2>2, <2>4, <2>7, <2>9 DEF WholeNameOf, Attached, Consistent
    <2>11. device.name \in WholeNameOf(seized)
      BY <2>4, <2>7, <2>8 DEF WholeNameOf
    <2> QED
      BY <2>2, <2>4, <2>5, <2>7, <2>10, <2>11 DEF SeizedIsVerified
  <1>2. ProgramInv => QuietRunIsRight
    BY <1>1 DEF ProgramInv, QuietRefusal, ReasonToRefuse, QuietRunIsRight
  <1> QED
    BY <1>2, ProgramInvariant, PTL
-----------------------------------------------------------------------------
(* The command line                                                        *)

\* Whatever a word of a command line may be.
AnyWord == Words \cup Commands \cup {"bogus", JSON, ACK, DEVICE, OUTPUT}

\* What M65CliOptions may hold.
OptionSet ==
  [json : BOOLEAN, acknowledgement : BOOLEAN,
   device : Words \cup {NULL}, output : Words \cup {NULL}]

\* The options are four different words.
LEMMA OptionWords ==
  /\ JSON # ACK /\ JSON # DEVICE /\ JSON # OUTPUT
  /\ ACK # DEVICE /\ ACK # OUTPUT /\ DEVICE # OUTPUT
  BY DEF JSON, ACK, DEVICE, OUTPUT

\* The groups of a line one by one.
LEMMA GroupsAre ==
  ASSUME NEW o \in OptionSet
  PROVE  /\ Groups(o) \in [1..4 -> Seq(AnyWord)]
         /\ Groups(o)[1] = IF o.json THEN <<JSON>> ELSE << >>
         /\ Groups(o)[2] = IF o.acknowledgement THEN <<ACK>> ELSE << >>
         /\ Groups(o)[3] = IF o.device # NULL THEN <<DEVICE, o.device>>
                           ELSE << >>
         /\ Groups(o)[4] = IF o.output # NULL THEN <<OUTPUT, o.output>>
                           ELSE << >>
  <1> DEFINE a == IF o.json THEN <<JSON>> ELSE << >>
             b == IF o.acknowledgement THEN <<ACK>> ELSE << >>
             c == IF o.device # NULL THEN <<DEVICE, o.device>> ELSE << >>
             d == IF o.output # NULL THEN <<OUTPUT, o.output>> ELSE << >>
  <1>1. a \in Seq(AnyWord) /\ b \in Seq(AnyWord)
    <2>1. JSON \in AnyWord /\ ACK \in AnyWord
      BY DEF AnyWord
    <2> QED
      BY <2>1
  <1>2. o.device # NULL => o.device \in AnyWord
    BY DEF AnyWord, OptionSet
  <1>3. o.output # NULL => o.output \in AnyWord
    BY DEF AnyWord, OptionSet
  <1>4. c \in Seq(AnyWord) /\ d \in Seq(AnyWord)
    <2>1. DEVICE \in AnyWord /\ OUTPUT \in AnyWord
      BY DEF AnyWord
    <2> QED
      BY <1>2, <1>3, <2>1
  <1>5. Groups(o) = <<a, b, c, d>>
    BY Zenon DEF Groups
  <1> HIDE DEF a, b, c, d
  <1>6. /\ Groups(o) \in [1..4 -> Seq(AnyWord)]
        /\ Groups(o)[1] = a /\ Groups(o)[2] = b
        /\ Groups(o)[3] = c /\ Groups(o)[4] = d
    BY <1>1, <1>4, <1>5
  <1> QED
    BY <1>6 DEF a, b, c, d

\* Four places for four groups: every group has its place.
LEMMA PlaceExists ==
  ASSUME NEW p \in Orders, NEW i \in 1..4
  PROVE  p[1] = i \/ p[2] = i \/ p[3] = i \/ p[4] = i
  <1>1. /\ p[1] \in {1, 2, 3, 4} /\ p[2] \in {1, 2, 3, 4}
        /\ p[3] \in {1, 2, 3, 4} /\ p[4] \in {1, 2, 3, 4}
        /\ p[1] # p[2] /\ p[1] # p[3] /\ p[1] # p[4]
        /\ p[2] # p[3] /\ p[2] # p[4] /\ p[3] # p[4]
    BY DEF Orders
  <1> QED
    BY <1>1

\* One list of words after another.
Joint(s, t) == s \o t

\* What a joint of two lists is, word by word.
LEMMA JointIs ==
  ASSUME NEW S, NEW s \in Seq(S), NEW t \in Seq(S)
  PROVE  Joint(s, t) \in Seq(S) /\ Len(Joint(s, t)) = Len(s) + Len(t)
  BY DEF Joint

\* The first list comes first.
LEMMA JointLeft ==
  ASSUME NEW S, NEW s \in Seq(S), NEW t \in Seq(S), NEW i \in 1..Len(s)
  PROVE  Joint(s, t)[i] = s[i]
  BY DEF Joint

\* The second list comes after it.
LEMMA JointRight ==
  ASSUME NEW S, NEW s \in Seq(S), NEW t \in Seq(S), NEW i \in 1..Len(t)
  PROVE  Joint(s, t)[Len(s) + i] = t[i]
  BY DEF Joint

\* Joined to nothing a list stays as it is.
LEMMA JointEmpty ==
  ASSUME NEW S, NEW s \in Seq(S)
  PROVE  Joint(s, << >>) = s /\ Joint(<< >>, s) = s
  BY ConcatEmptySeq DEF Joint

\* Three lists can be joined in two ways.
LEMMA JointTwice ==
  ASSUME NEW S, NEW s \in Seq(S), NEW t \in Seq(S), NEW u \in Seq(S)
  PROVE  Joint(Joint(s, t), u) = Joint(s, Joint(t, u))
  BY ConcatAssociative DEF Joint

\* The lists of g in the order p, after c.
Cat(c, g, p) ==
  Joint(Joint(Joint(Joint(c, g[p[1]]), g[p[2]]), g[p[3]]), g[p[4]])

\* Five lists, joined from the left or from the right.
LEMMA Regroup ==
  ASSUME NEW S, NEW s \in Seq(S), NEW w \in Seq(S), NEW x \in Seq(S),
         NEW y \in Seq(S), NEW z \in Seq(S)
  PROVE  Joint(Joint(Joint(Joint(s, w), x), y), z)
           = Joint(s, Joint(w, Joint(x, Joint(y, z))))
  <1> DEFINE a == Joint(s, w)
             b == Joint(a, x)
             d == Joint(y, z)
             e == Joint(x, d)
  <1>1. a \in Seq(S) /\ d \in Seq(S)
    BY JointIs
  <1>2. b \in Seq(S) /\ e \in Seq(S)
    BY <1>1, JointIs
  <1> HIDE DEF a, b, d, e
  <1>3. Joint(Joint(b, y), z) = Joint(b, d)
    BY <1>2, JointTwice DEF d
  <1>4. Joint(b, d) = Joint(a, e)
    BY <1>1, <1>2, JointTwice DEF b, e
  <1>5. Joint(a, e) = Joint(s, Joint(w, e))
    BY <1>1, <1>2, JointTwice DEF a
  <1> QED
    BY <1>3, <1>4, <1>5 DEF a, b, d, e

\* h has a list at i where g has none; the others are the same.
FillsOnly(g, h, i) == g[i] = << >> /\ \A j \in 1..4 \ {i} : h[j] = g[j]

\* An empty group leaves no trace.
LEMMA EmptyDropped ==
  ASSUME NEW S, NEW c \in Seq(S), NEW w \in Seq(S), NEW x \in Seq(S),
         NEW y \in Seq(S), NEW e, e = << >>
  PROVE  /\ Joint(c, e) = c
         /\ Joint(Joint(c, w), e) = Joint(c, w)
         /\ Joint(Joint(Joint(c, w), x), e) = Joint(Joint(c, w), x)
         /\ Joint(Joint(Joint(Joint(c, w), x), y), e)
              = Joint(Joint(Joint(c, w), x), y)
  <1>1. Joint(c, w) \in Seq(S)
    BY JointIs
  <1>2. Joint(Joint(c, w), x) \in Seq(S)
    BY <1>1, JointIs
  <1>3. Joint(Joint(Joint(c, w), x), y) \in Seq(S)
    BY <1>2, JointIs
  <1> QED
    BY <1>1, <1>2, <1>3, JointEmpty

\* An empty group may as well stand last, where it can be filled.
LEMMA MoveLast ==
  ASSUME NEW S, NEW g \in [1..4 -> Seq(S)], NEW h \in [1..4 -> Seq(S)],
         NEW i \in 1..4, FillsOnly(g, h, i), NEW p \in Orders, NEW c \in Seq(S)
  PROVE  \E q \in Orders : Cat(c, h, q) = Joint(Cat(c, g, p), h[i])
  <1> DEFINE O(w, x, y, z) ==
               [n \in 1..4 |-> IF n = 1 THEN w ELSE IF n = 2 THEN x
                               ELSE IF n = 3 THEN y ELSE z]
             Three(w, x, y) == Joint(Joint(Joint(c, g[w]), g[x]), g[y])
  <1>1. /\ p[1] \in 1..4 /\ p[2] \in 1..4 /\ p[3] \in 1..4 /\ p[4] \in 1..4
        /\ p[1] # p[2] /\ p[1] # p[3] /\ p[1] # p[4]
        /\ p[2] # p[3] /\ p[2] # p[4] /\ p[3] # p[4]
    BY DEF Orders
  <1>2. ASSUME NEW w \in 1..4, NEW x \in 1..4, NEW y \in 1..4, w # x, w # y,
               x # y, w # i, x # i, y # i, Cat(c, g, p) = Three(w, x, y)
        PROVE  \E q \in Orders : Cat(c, h, q) = Joint(Cat(c, g, p), h[i])
    <2> DEFINE q == O(w, x, y, i)
    <2>1. q \in Orders
      BY <1>2 DEF Orders
    <2>2. q[1] = w /\ q[2] = x /\ q[3] = y /\ q[4] = i
      OBVIOUS
    <2>3. h[w] = g[w] /\ h[x] = g[x] /\ h[y] = g[y]
      BY <1>2 DEF FillsOnly
    <2> HIDE DEF q
    <2>4. Cat(c, h, q) = Joint(Three(w, x, y), h[i])
      BY <2>2, <2>3 DEF Cat
    <2> HIDE DEF Three
    <2>5. Cat(c, h, q) = Joint(Cat(c, g, p), h[i])
      BY <1>2, <2>4
    <2> QED
      BY <2>1, <2>5
  <1>3. g[i] = << >>
    BY DEF FillsOnly
  <1>4. g[p[1]] \in Seq(S) /\ g[p[2]] \in Seq(S) /\ g[p[3]] \in Seq(S)
        /\ g[p[4]] \in Seq(S)
    BY <1>1
  <1> DEFINE w == g[p[1]]
             x == g[p[2]]
             y == g[p[3]]
             z == g[p[4]]
  <1>5. Cat(c, g, p) = Joint(Joint(Joint(Joint(c, w), x), y), z)
    BY Zenon DEF Cat
  <1>6. /\ Three(p[1], p[2], p[3]) = Joint(Joint(Joint(c, w), x), y)
         /\ Three(p[1], p[2], p[4]) = Joint(Joint(Joint(c, w), x), z)
         /\ Three(p[1], p[3], p[4]) = Joint(Joint(Joint(c, w), y), z)
         /\ Three(p[2], p[3], p[4]) = Joint(Joint(Joint(c, x), y), z)
    OBVIOUS
  <1> HIDE DEF Three
  <1>7. ASSUME NEW e, e = << >>
         PROVE  /\ Joint(c, e) = c
                /\ Joint(Joint(c, w), e) = Joint(c, w)
                /\ Joint(Joint(Joint(c, w), x), e) = Joint(Joint(c, w), x)
                /\ Joint(Joint(Joint(Joint(c, w), x), y), e)
                     = Joint(Joint(Joint(c, w), x), y)
    <2> HIDE DEF w, x, y
    <2>1. w \in Seq(S) /\ x \in Seq(S) /\ y \in Seq(S)
      BY <1>4 DEF w, x, y
    <2> QED
      BY <1>7, <2>1, EmptyDropped
  <1>8. CASE p[1] = i
    <2>1. w = << >>
      BY <1>3, <1>8
    <2> HIDE DEF w, x, y, z
    <2>2. Cat(c, g, p) = Three(p[2], p[3], p[4])
      BY <1>5, <1>6, <1>7, <2>1
    <2> QED
      BY <1>1, <1>2, <1>8, <2>2
  <1>9. CASE p[2] = i
    <2>1. x = << >>
      BY <1>3, <1>9
    <2> HIDE DEF w, x, y, z
    <2>2. Cat(c, g, p) = Three(p[1], p[3], p[4])
      BY <1>5, <1>6, <1>7, <2>1
    <2> QED
      BY <1>1, <1>2, <1>9, <2>2
  <1>10. CASE p[3] = i
    <2>1. y = << >>
      BY <1>3, <1>10
    <2> HIDE DEF w, x, y, z
    <2>2. Cat(c, g, p) = Three(p[1], p[2], p[4])
      BY <1>5, <1>6, <1>7, <2>1
    <2> QED
      BY <1>1, <1>2, <1>10, <2>2
  <1>11. CASE p[4] = i
    <2>1. z = << >>
      BY <1>3, <1>11
    <2> HIDE DEF w, x, y, z
    <2>2. Cat(c, g, p) = Three(p[1], p[2], p[3])
      BY <1>5, <1>6, <1>7, <2>1
    <2> QED
      BY <1>1, <1>2, <1>11, <2>2
  <1> QED
    BY <1>8, <1>9, <1>10, <1>11, PlaceExists

\* What the parser has read so far is a line with the options it holds.
LEMMA TakeKeeps ==
  ASSUME NEW o \in OptionSet, NEW n \in OptionSet, NEW i \in 1..4,
         FillsOnly(Groups(o), Groups(n), i), NEW c \in AnyWord,
         NEW line \in Lines(c, o)
  PROVE  Joint(line, Groups(n)[i]) \in Lines(c, n)
  <1> DEFINE g == Groups(o)
             h == Groups(n)
             s == <<c>>
  <1>1. g \in [1..4 -> Seq(AnyWord)] /\ h \in [1..4 -> Seq(AnyWord)]
    BY GroupsAre
  <1>2. s \in Seq(AnyWord)
    OBVIOUS
  <1>3. PICK p \in Orders : line = Line(c, o, p)
    BY DEF Lines
  <1>4. line = Cat(s, g, p)
    BY <1>3, Zenon DEF Line, Cat, Joint
  <1> HIDE DEF g, h, s
  <1>5. PICK q \in Orders : Cat(s, h, q) = Joint(Cat(s, g, p), h[i])
    <2>1. FillsOnly(g, h, i)
      BY DEF g, h
    <2> QED
      BY <1>1, <1>2, <2>1, MoveLast
  <1>6. Line(c, n, q) = Cat(s, h, q)
    BY Zenon DEF Line, Cat, Joint, s, h
  <1>7. Line(c, n, q) = Joint(line, h[i])
    BY <1>4, <1>5, <1>6
  <1> QED
    BY <1>7 DEF Lines, h
-----------------------------------------------------------------------------
\* The words of a line from the group at place k + 1 on.
Rest(g, p, k) ==
  IF k = 0 THEN Joint(g[p[1]], Joint(g[p[2]], Joint(g[p[3]], g[p[4]])))
  ELSE IF k = 1 THEN Joint(g[p[2]], Joint(g[p[3]], g[p[4]]))
  ELSE IF k = 2 THEN Joint(g[p[3]], g[p[4]])
  ELSE IF k = 3 THEN g[p[4]]
  ELSE << >>

\* The rest begins with its first group.
LEMMA RestStep ==
  ASSUME NEW S, NEW g \in [1..4 -> Seq(S)], NEW p \in Orders
  PROVE  /\ \A k \in 0..4 : Rest(g, p, k) \in Seq(S)
         /\ \A k \in 0..3 :
              Rest(g, p, k) = Joint(g[p[k + 1]], Rest(g, p, k + 1))
         /\ Rest(g, p, 4) = << >>
  <1> DEFINE w == g[p[1]]
             x == g[p[2]]
             y == g[p[3]]
             z == g[p[4]]
  <1>1. /\ p[1] \in 1..4 /\ p[2] \in 1..4 /\ p[3] \in 1..4 /\ p[4] \in 1..4
    BY DEF Orders
  <1>2. w \in Seq(S) /\ x \in Seq(S) /\ y \in Seq(S) /\ z \in Seq(S)
    BY <1>1
  <1>3. /\ Rest(g, p, 0) = Joint(w, Joint(x, Joint(y, z)))
        /\ Rest(g, p, 1) = Joint(x, Joint(y, z))
        /\ Rest(g, p, 2) = Joint(y, z)
        /\ Rest(g, p, 3) = z
        /\ Rest(g, p, 4) = << >>
    BY DEF Rest
  <1>4. /\ g[p[0 + 1]] = w /\ g[p[1 + 1]] = x /\ g[p[2 + 1]] = y
        /\ g[p[3 + 1]] = z
    OBVIOUS
  <1> HIDE DEF w, x, y, z
  <1>5. \A k \in 0..4 : Rest(g, p, k) \in Seq(S)
    <2>1. Joint(y, z) \in Seq(S) /\ << >> \in Seq(S)
      BY <1>2, JointIs
    <2>2. Joint(x, Joint(y, z)) \in Seq(S)
      BY <1>2, <2>1, JointIs
    <2>3. Joint(w, Joint(x, Joint(y, z))) \in Seq(S)
      BY <1>2, <2>2, JointIs
    <2>4. \A k \in 0..4 : k = 0 \/ k = 1 \/ k = 2 \/ k = 3 \/ k = 4
      OBVIOUS
    <2> QED
      BY <1>2, <1>3, <2>1, <2>2, <2>3, <2>4
  <1>6. Joint(z, << >>) = z
    BY <1>2, JointEmpty
  <1>7. \A k \in 0..3 : Rest(g, p, k) = Joint(g[p[k + 1]], Rest(g, p, k + 1))
    <2>1. \A k \in 0..3 : k = 0 \/ k = 1 \/ k = 2 \/ k = 3
      OBVIOUS
    <2>2. 0 + 1 = 1 /\ 1 + 1 = 2 /\ 2 + 1 = 3 /\ 3 + 1 = 4
      OBVIOUS
    <2> QED
      BY <1>3, <1>4, <1>6, <2>1, <2>2
  <1> QED
    BY <1>3, <1>5, <1>7

\* A line is its command and its groups.
LEMMA LineIs ==
  ASSUME NEW o \in OptionSet, NEW p \in Orders, NEW c \in AnyWord
  PROVE  Line(c, o, p) = Joint(<<c>>, Rest(Groups(o), p, 0))
  <1> DEFINE g == Groups(o)
             s == <<c>>
             w == g[p[1]]
             x == g[p[2]]
             y == g[p[3]]
             z == g[p[4]]
  <1>1. /\ p[1] \in 1..4 /\ p[2] \in 1..4 /\ p[3] \in 1..4 /\ p[4] \in 1..4
    BY DEF Orders
  <1>2. g \in [1..4 -> Seq(AnyWord)]
    BY GroupsAre
  <1>3. /\ w \in Seq(AnyWord) /\ x \in Seq(AnyWord) /\ y \in Seq(AnyWord)
        /\ z \in Seq(AnyWord) /\ s \in Seq(AnyWord)
    <2> HIDE DEF g
    <2>1. s \in Seq(AnyWord)
      OBVIOUS
    <2> QED
      BY <1>1, <1>2, <2>1
  <1>4. Line(c, o, p) = Joint(Joint(Joint(Joint(s, w), x), y), z)
    BY Zenon DEF Line, Joint
  <1>5. Rest(g, p, 0) = Joint(w, Joint(x, Joint(y, z)))
    BY DEF Rest
  <1> HIDE DEF g, s, w, x, y, z
  <1>6. Joint(Joint(Joint(Joint(s, w), x), y), z)
          = Joint(s, Joint(w, Joint(x, Joint(y, z))))
    BY <1>3, Regroup
  <1> QED
    BY <1>4, <1>5, <1>6 DEF g, s

\* The groups at the first k places.
Placed(p, k) == {p[j] : j \in 1..k}

\* The options n are those of the first k groups of a line with options o.
Holding(n, o, p, k) ==
  /\ n.json <=> (1 \in Placed(p, k) /\ o.json)
  /\ n.acknowledgement <=> (2 \in Placed(p, k) /\ o.acknowledgement)
  /\ n.device = IF 3 \in Placed(p, k) THEN o.device ELSE NULL
  /\ n.output = IF 4 \in Placed(p, k) THEN o.output ELSE NULL

\* The word at i is the first one after k groups of the line.
StandsAt(words, i, n, o, p, k) ==
  /\ Holding(n, o, p, k)
  /\ \E done \in Seq(AnyWord) :
       Len(done) = i - 1 /\ words = Joint(done, Rest(Groups(o), p, k))

\* One more place.
LEMMA PlacedMore ==
  ASSUME NEW p \in Orders
  PROVE  /\ Placed(p, 0) = {}
         /\ Placed(p, 4) = 1..4
         /\ \A k \in 0..3 : /\ Placed(p, k + 1) = Placed(p, k) \cup {p[k + 1]}
                            /\ p[k + 1] \notin Placed(p, k)
                            /\ p[k + 1] \in 1..4
  <1>1. Placed(p, 0) = {}
    BY DEF Placed
  <1>2. ASSUME NEW i \in 1..4 PROVE i \in Placed(p, 4)
    <2>1. 1 \in 1..4 /\ 2 \in 1..4 /\ 3 \in 1..4 /\ 4 \in 1..4
      OBVIOUS
    <2> QED
      BY <2>1, PlaceExists DEF Placed
  <1>3. Placed(p, 4) \subseteq 1..4
    BY DEF Placed, Orders
  <1>4. ASSUME NEW k \in 0..3
        PROVE  /\ Placed(p, k + 1) = Placed(p, k) \cup {p[k + 1]}
               /\ p[k + 1] \notin Placed(p, k)
               /\ p[k + 1] \in 1..4
    <2>1. 1..k + 1 = 1..k \cup {k + 1} /\ k + 1 \in 1..4 /\ k + 1 \notin 1..k
          /\ 1..k \subseteq 1..4
      OBVIOUS
    <2> QED
      BY <2>1 DEF Placed, Orders
  <1> QED
    BY <1>1, <1>2, <1>3, <1>4

\* A group is empty when its option is not given.
LEMMA GroupEmpty ==
  ASSUME NEW o \in OptionSet
  PROVE  /\ o.json <=> Groups(o)[1] # << >>
         /\ o.acknowledgement <=> Groups(o)[2] # << >>
         /\ o.device # NULL <=> Groups(o)[3] # << >>
         /\ o.output # NULL <=> Groups(o)[4] # << >>
  <1>1. /\ <<JSON>> # << >> /\ <<ACK>> # << >>
        /\ <<DEVICE, o.device>> # << >> /\ <<OUTPUT, o.output>> # << >>
    OBVIOUS
  <1> DEFINE a == <<JSON>>
             b == <<ACK>>
             c == <<DEVICE, o.device>>
             d == <<OUTPUT, o.output>>
             e == << >>
  <1>2. /\ Groups(o)[1] = IF o.json THEN a ELSE e
        /\ Groups(o)[2] = IF o.acknowledgement THEN b ELSE e
        /\ Groups(o)[3] = IF o.device # NULL THEN c ELSE e
        /\ Groups(o)[4] = IF o.output # NULL THEN d ELSE e
    BY GroupsAre
  <1>3. a # e /\ b # e /\ c # e /\ d # e
    BY <1>1
  <1> HIDE DEF a, b, c, d, e
  <1>4. /\ o.json <=> Groups(o)[1] # e
        /\ o.acknowledgement <=> Groups(o)[2] # e
        /\ o.device # NULL <=> Groups(o)[3] # e
        /\ o.output # NULL <=> Groups(o)[4] # e
    BY <1>2, <1>3
  <1> QED
    BY <1>4 DEF e

\* An empty group is passed without a word.
LEMMA SkipEmpty ==
  ASSUME NEW words, NEW i, NEW n, NEW o \in OptionSet, NEW p \in Orders,
         NEW k \in 0..3, StandsAt(words, i, n, o, p, k),
         Groups(o)[p[k + 1]] = << >>
  PROVE  StandsAt(words, i, n, o, p, k + 1)
  <1> DEFINE g == Groups(o)
             r == Rest(g, p, k + 1)
             P == Placed(p, k)
             Q == Placed(p, k + 1)
  <1>1. g \in [1..4 -> Seq(AnyWord)]
    BY GroupsAre
  <1>2. Q = P \cup {p[k + 1]} /\ p[k + 1] \notin P /\ p[k + 1] \in 1..4
    BY PlacedMore
  <1>3. Rest(g, p, k) = r
    <2> DEFINE e == << >>
    <2>1. Rest(g, p, k) = Joint(e, r) /\ r \in Seq(AnyWord)
      <3> HIDE DEF g
      <3>1. /\ \A m \in 0..4 : Rest(g, p, m) \in Seq(AnyWord)
            /\ \A m \in 0..3 : Rest(g, p, m)
                                 = Joint(g[p[m + 1]], Rest(g, p, m + 1))
        BY <1>1, RestStep
      <3>2. k + 1 \in 0..4
        OBVIOUS
      <3>3. g[p[k + 1]] = e
        BY DEF g
      <3> HIDE DEF e
      <3> QED
        BY <3>1, <3>2, <3>3
    <2> HIDE DEF r, g
    <2> QED
      BY <2>1, JointEmpty
  <1>4. Holding(n, o, p, k + 1)
    <2>1. /\ 1 \in Q /\ 1 \notin P => ~o.json
          /\ 2 \in Q /\ 2 \notin P => ~o.acknowledgement
          /\ 3 \in Q /\ 3 \notin P => o.device = NULL
          /\ 4 \in Q /\ 4 \notin P => o.output = NULL
      <3>1. /\ p[k + 1] = 1 => ~o.json
            /\ p[k + 1] = 2 => ~o.acknowledgement
            /\ p[k + 1] = 3 => o.device = NULL
            /\ p[k + 1] = 4 => o.output = NULL
        BY GroupEmpty
      <3> HIDE DEF P, Q
      <3> QED
        BY <1>2, <3>1
    <2>2. P \subseteq Q
      BY <1>2
    <2>3. /\ n.json <=> (1 \in P /\ o.json)
          /\ n.acknowledgement <=> (2 \in P /\ o.acknowledgement)
          /\ n.device = IF 3 \in P THEN o.device ELSE NULL
          /\ n.output = IF 4 \in P THEN o.output ELSE NULL
      BY DEF StandsAt, Holding
    <2> HIDE DEF P, Q
    <2>4. /\ n.json <=> (1 \in Q /\ o.json)
          /\ n.acknowledgement <=> (2 \in Q /\ o.acknowledgement)
      BY <2>1, <2>2, <2>3, Zenon
    <2>5. /\ n.device = IF 3 \in Q THEN o.device ELSE NULL
          /\ n.output = IF 4 \in Q THEN o.output ELSE NULL
      BY <2>1, <2>2, <2>3
    <2> QED
      BY <2>4, <2>5 DEF Holding, Q
  <1> HIDE DEF g, r, P, Q
  <1>5. \E done \in Seq(AnyWord) :
          Len(done) = i - 1 /\ words = Joint(done, r)
    BY <1>3 DEF StandsAt, g
  <1> QED
    BY <1>4, <1>5 DEF StandsAt, g, r

\* Before the end of the words there is a group that is not empty.
LEMMA GroupAhead ==
  ASSUME NEW words, NEW i \in Nat, i <= Len(words), NEW n,
         NEW o \in OptionSet, NEW p \in Orders, NEW k \in 0..4,
         StandsAt(words, i, n, o, p, k)
  PROVE  \E m \in 0..3 : /\ StandsAt(words, i, n, o, p, m)
                         /\ Groups(o)[p[m + 1]] # << >>
  <1> DEFINE S(m) == StandsAt(words, i, n, o, p, m)
             E(m) == Groups(o)[p[m + 1]] = << >>
  <1>1. ~S(4)
    <2> SUFFICES ASSUME S(4) PROVE FALSE
      OBVIOUS
    <2> DEFINE g == Groups(o)
               r == Rest(g, p, 4)
               e == << >>
    <2>1. g \in [1..4 -> Seq(AnyWord)]
      BY GroupsAre
    <2>2. r = e
      BY <2>1, RestStep
    <2>3. PICK done \in Seq(AnyWord) :
            Len(done) = i - 1 /\ words = Joint(done, r)
      BY DEF StandsAt
    <2>4. Joint(done, e) = done
      BY JointEmpty
    <2> HIDE DEF r, e
    <2>5. Len(words) = i - 1
      BY <2>2, <2>3, <2>4
    <2> QED
      BY <2>5
  <1>2. ASSUME NEW m \in 0..3, S(m), E(m) PROVE S(m + 1)
    BY <1>2, SkipEmpty
  <1>3. 0 + 1 = 1 /\ 1 + 1 = 2 /\ 2 + 1 = 3 /\ 3 + 1 = 4
        /\ 0 \in 0..3 /\ 1 \in 0..3 /\ 2 \in 0..3 /\ 3 \in 0..3
    OBVIOUS
  <1>4. k = 0 \/ k = 1 \/ k = 2 \/ k = 3 \/ k = 4
    OBVIOUS
  <1>5. S(k)
    OBVIOUS
  <1> HIDE DEF S, E
  <1>6. /\ S(0) /\ E(0) => S(1)
        /\ S(1) /\ E(1) => S(2)
        /\ S(2) /\ E(2) => S(3)
        /\ S(3) /\ E(3) => S(4)
    <2>1. S(0) /\ E(0) => S(0 + 1)
      BY <1>2, <1>3
    <2>2. S(1) /\ E(1) => S(1 + 1)
      BY <1>2, <1>3
    <2>3. S(2) /\ E(2) => S(2 + 1)
      BY <1>2, <1>3
    <2>4. S(3) /\ E(3) => S(3 + 1)
      BY <1>2, <1>3
    <2> QED
      BY <1>3, <2>1, <2>2, <2>3, <2>4
  <1>7. \E m \in 0..3 : S(m) /\ ~E(m)
    BY <1>1, <1>3, <1>4, <1>5, <1>6
  <1> QED
    BY <1>7 DEF S, E

\* From the word at i on, words has those of s and then those of r.
NextWords(words, i, s, r) ==
  /\ i - 1 + Len(s) <= Len(words)
  /\ \A j \in 1..Len(s) : words[i - 1 + j] = s[j]
  /\ \E done \in Seq(AnyWord) :
       Len(done) = i - 1 + Len(s) /\ words = Joint(done, r)

\* A group has the next words.
LEMMA TakeGroup ==
  ASSUME NEW words, NEW i \in Nat, i > 0, NEW n,
         NEW o \in OptionSet, NEW p \in Orders, NEW k \in 0..3,
         StandsAt(words, i, n, o, p, k), NEW s, s = Groups(o)[p[k + 1]]
  PROVE  NextWords(words, i, s, Rest(Groups(o), p, k + 1))
  <1> DEFINE g == Groups(o)
             r == Rest(g, p, k + 1)
  <1>1. g \in [1..4 -> Seq(AnyWord)]
    BY GroupsAre
  <1>2. s \in Seq(AnyWord)
    <2>1. p[k + 1] \in 1..4
      BY PlacedMore
    <2> QED
      BY <1>1, <2>1
  <1>3. r \in Seq(AnyWord) /\ Rest(g, p, k) = Joint(s, r)
    <2> HIDE DEF g
    <2>1. /\ \A m \in 0..4 : Rest(g, p, m) \in Seq(AnyWord)
          /\ \A m \in 0..3 : Rest(g, p, m)
                               = Joint(g[p[m + 1]], Rest(g, p, m + 1))
      BY <1>1, RestStep
    <2>2. k + 1 \in 0..4
      OBVIOUS
    <2>3. g[p[k + 1]] = s
      BY DEF g
    <2> QED
      BY <2>1, <2>2, <2>3
  <1>4. PICK done \in Seq(AnyWord) :
          Len(done) = i - 1 /\ words = Joint(done, Rest(g, p, k))
    BY DEF StandsAt
  <1> HIDE DEF g, r
  <1>5. words = Joint(Joint(done, s), r)
    BY <1>2, <1>3, <1>4, JointTwice
  <1> DEFINE t == Joint(done, s)
  <1>6. /\ t \in Seq(AnyWord) /\ Len(t) = i - 1 + Len(s)
        /\ \A j \in 1..Len(s) : t[i - 1 + j] = s[j]
    <2>1. /\ t \in Seq(AnyWord) /\ Len(t) = Len(done) + Len(s)
          /\ \A j \in 1..Len(s) : t[Len(done) + j] = s[j]
      <3>1. ASSUME NEW j \in 1..Len(s) PROVE t[Len(done) + j] = s[j]
        BY <1>2, JointRight
      <3>2. t \in Seq(AnyWord) /\ Len(t) = Len(done) + Len(s)
        BY <1>2, JointIs
      <3> QED
        BY <3>1, <3>2
    <2> DEFINE d == Len(done)
    <2>2. d = i - 1
      BY <1>4
    <2> HIDE DEF t, d
    <2>3. /\ Len(t) = d + Len(s)
          /\ \A j \in 1..Len(s) : t[d + j] = s[j]
      BY <2>1 DEF d
    <2> QED
      BY <2>1, <2>2, <2>3
  <1> HIDE DEF t
  <1>7. words = Joint(t, r)
    BY <1>5 DEF t
  <1>8. /\ Len(words) = Len(t) + Len(r)
        /\ \A j \in 1..Len(t) : words[j] = t[j]
    <2>1. /\ Len(Joint(t, r)) = Len(t) + Len(r)
          /\ \A j \in 1..Len(t) : Joint(t, r)[j] = t[j]
      BY <1>3, <1>6, JointIs, JointLeft
    <2> QED
      BY <1>7, <2>1
  <1>9. Len(s) \in Nat /\ Len(r) \in Nat
    BY <1>2, <1>3
  <1>10. \A j \in 1..Len(s) : i - 1 + j \in 1..Len(t)
    BY <1>6, <1>9
  <1>11. i - 1 + Len(s) <= Len(words)
    BY <1>6, <1>8, <1>9
  <1>12. \A j \in 1..Len(s) : words[i - 1 + j] = s[j]
    BY <1>6, <1>8, <1>10
  <1>13. \E d \in Seq(AnyWord) :
           Len(d) = i - 1 + Len(s) /\ words = Joint(d, r)
    BY <1>6, <1>7
  <1> QED
    BY <1>11, <1>12, <1>13 DEF NextWords, g, r

\* At the end of the words every option of the line is held.
LEMMA LineEnds ==
  ASSUME NEW words, NEW i \in Nat, i > 0, i > Len(words), NEW n,
         NEW o \in OptionSet, NEW p \in Orders, NEW k \in 0..4,
         StandsAt(words, i, n, o, p, k)
  PROVE  Holding(n, o, p, 4)
  <1> DEFINE S(m) == StandsAt(words, i, n, o, p, m)
  <1>1. ASSUME NEW m \in 0..3, S(m) PROVE S(m + 1)
    <2> DEFINE s == Groups(o)[p[m + 1]]
    <2>1. s \in Seq(AnyWord)
      BY GroupsAre, PlacedMore
    <2>2. i - 1 + Len(s) <= Len(words)
      BY <1>1, TakeGroup DEF NextWords
    <2>3. s = << >>
      <3> HIDE DEF s
      <3>1. Len(s) = 0
        BY <2>1, <2>2
      <3> QED
        BY <2>1, <3>1, EmptySeq
    <2> QED
      BY <1>1, <2>3, SkipEmpty
  <1>2. 0 + 1 = 1 /\ 1 + 1 = 2 /\ 2 + 1 = 3 /\ 3 + 1 = 4
        /\ 0 \in 0..3 /\ 1 \in 0..3 /\ 2 \in 0..3 /\ 3 \in 0..3
    OBVIOUS
  <1>3. k = 0 \/ k = 1 \/ k = 2 \/ k = 3 \/ k = 4
    OBVIOUS
  <1>4. S(k)
    OBVIOUS
  <1> HIDE DEF S
  <1>5. (S(0) => S(1)) /\ (S(1) => S(2)) /\ (S(2) => S(3)) /\ (S(3) => S(4))
    <2>1. (S(0) => S(0 + 1)) /\ (S(1) => S(1 + 1))
          /\ (S(2) => S(2 + 1)) /\ (S(3) => S(3 + 1))
      BY <1>1, <1>2
    <2> QED
      BY <1>2, <2>1
  <1>6. S(4)
    BY <1>3, <1>4, <1>5
  <1> QED
    BY <1>6 DEF S, StandsAt

\* The next group is that of --json.
LEMMA Group1Next ==
  ASSUME NEW words, NEW i \in Nat, i > 0, NEW n \in OptionSet,
         NEW o \in OptionSet, NEW p \in Orders, NEW k \in 0..3,
         StandsAt(words, i, n, o, p, k), p[k + 1] = 1,
         Groups(o)[p[k + 1]] # << >>
  PROVE  /\ words[i] = JSON /\ ~n.json
         /\ StandsAt(words, i + 1, [n EXCEPT !.json = TRUE],
                     o, p, k + 1)
  <1> DEFINE P == Placed(p, k)
             Q == Placed(p, k + 1)
             s == <<JSON>>
  <1>1. Q = P \cup {1} /\ 1 \notin P
    BY PlacedMore
  <1>2. o.json
    BY GroupEmpty
  <1>3. Groups(o)[1] = s
    BY <1>2, GroupsAre
  <1>4. Len(s) = 1 /\ s[1] = JSON
    OBVIOUS
  <1>5. s = Groups(o)[p[k + 1]]
    BY <1>3
  <1> HIDE DEF s
  <1>6. NextWords(words, i, s, Rest(Groups(o), p, k + 1))
    BY <1>5, TakeGroup
  <1>7. /\ i - 1 + Len(s) <= Len(words)
        /\ \A j \in 1..Len(s) : words[i - 1 + j] = s[j]
        /\ \E done \in Seq(AnyWord) :
             /\ Len(done) = i - 1 + Len(s)
             /\ words = Joint(done, Rest(Groups(o), p, k + 1))
    BY <1>6 DEF NextWords
  <1>8. i - 1 + 1 = i /\ 1 \in 1..1
        /\ i - 1 + 1 = (i + 1) - 1
    OBVIOUS
  <1>9. words[i] = JSON
    BY <1>4, <1>7, <1>8
  <1>10. /\ n.json <=> (1 \in P /\ o.json)
         /\ n.acknowledgement <=> (2 \in P /\ o.acknowledgement)
         /\ n.device = IF 3 \in P THEN o.device ELSE NULL
         /\ n.output = IF 4 \in P THEN o.output ELSE NULL
    BY DEF StandsAt, Holding
  <1> DEFINE v == TRUE
             m == [n EXCEPT !.json = v]
  <1>11. /\ m.json = v /\ m.acknowledgement = n.acknowledgement
         /\ m.device = n.device /\ m.output = n.output
    BY DEF OptionSet
  <1>12. v = TRUE
    BY <1>9
  <1> HIDE DEF P, Q, m, v
  <1>13. /\ m.json <=> (1 \in Q /\ o.json)
         /\ m.acknowledgement <=> (2 \in Q /\ o.acknowledgement)
    BY <1>1, <1>2, <1>10, <1>11, <1>12
  <1>14. /\ m.device = IF 3 \in Q THEN o.device ELSE NULL
         /\ m.output = IF 4 \in Q THEN o.output ELSE NULL
    BY <1>1, <1>10, <1>11, <1>12
  <1>15. Holding(m, o, p, k + 1)
    BY <1>13, <1>14 DEF Holding, Q
  <1>16. \E done \in Seq(AnyWord) :
           /\ Len(done) = (i + 1) - 1
           /\ words = Joint(done, Rest(Groups(o), p, k + 1))
    BY <1>4, <1>7, <1>8
  <1>17. StandsAt(words, i + 1, m, o, p, k + 1)
    BY <1>15, <1>16 DEF StandsAt
  <1>18. ~n.json
    BY <1>1, <1>4, <1>7, <1>8, <1>10
  <1> QED
    BY <1>9, <1>17, <1>18 DEF m, v

\* The next group is that of --ack-temporary-controller-change.
LEMMA Group2Next ==
  ASSUME NEW words, NEW i \in Nat, i > 0, NEW n \in OptionSet,
         NEW o \in OptionSet, NEW p \in Orders, NEW k \in 0..3,
         StandsAt(words, i, n, o, p, k), p[k + 1] = 2,
         Groups(o)[p[k + 1]] # << >>
  PROVE  /\ words[i] = ACK /\ ~n.acknowledgement
         /\ StandsAt(words, i + 1, [n EXCEPT !.acknowledgement = TRUE],
                     o, p, k + 1)
  <1> DEFINE P == Placed(p, k)
             Q == Placed(p, k + 1)
             s == <<ACK>>
  <1>1. Q = P \cup {2} /\ 2 \notin P
    BY PlacedMore
  <1>2. o.acknowledgement
    BY GroupEmpty
  <1>3. Groups(o)[2] = s
    BY <1>2, GroupsAre
  <1>4. Len(s) = 1 /\ s[1] = ACK
    OBVIOUS
  <1>5. s = Groups(o)[p[k + 1]]
    BY <1>3
  <1> HIDE DEF s
  <1>6. NextWords(words, i, s, Rest(Groups(o), p, k + 1))
    BY <1>5, TakeGroup
  <1>7. /\ i - 1 + Len(s) <= Len(words)
        /\ \A j \in 1..Len(s) : words[i - 1 + j] = s[j]
        /\ \E done \in Seq(AnyWord) :
             /\ Len(done) = i - 1 + Len(s)
             /\ words = Joint(done, Rest(Groups(o), p, k + 1))
    BY <1>6 DEF NextWords
  <1>8. i - 1 + 1 = i /\ 1 \in 1..1
        /\ i - 1 + 1 = (i + 1) - 1
    OBVIOUS
  <1>9. words[i] = ACK
    BY <1>4, <1>7, <1>8
  <1>10. /\ n.json <=> (1 \in P /\ o.json)
         /\ n.acknowledgement <=> (2 \in P /\ o.acknowledgement)
         /\ n.device = IF 3 \in P THEN o.device ELSE NULL
         /\ n.output = IF 4 \in P THEN o.output ELSE NULL
    BY DEF StandsAt, Holding
  <1> DEFINE v == TRUE
             m == [n EXCEPT !.acknowledgement = v]
  <1>11. /\ m.acknowledgement = v /\ m.json = n.json
         /\ m.device = n.device /\ m.output = n.output
    BY DEF OptionSet
  <1>12. v = TRUE
    BY <1>9
  <1> HIDE DEF P, Q, m, v
  <1>13. /\ m.json <=> (1 \in Q /\ o.json)
         /\ m.acknowledgement <=> (2 \in Q /\ o.acknowledgement)
    BY <1>1, <1>2, <1>10, <1>11, <1>12
  <1>14. /\ m.device = IF 3 \in Q THEN o.device ELSE NULL
         /\ m.output = IF 4 \in Q THEN o.output ELSE NULL
    BY <1>1, <1>10, <1>11, <1>12
  <1>15. Holding(m, o, p, k + 1)
    BY <1>13, <1>14 DEF Holding, Q
  <1>16. \E done \in Seq(AnyWord) :
           /\ Len(done) = (i + 1) - 1
           /\ words = Joint(done, Rest(Groups(o), p, k + 1))
    BY <1>4, <1>7, <1>8
  <1>17. StandsAt(words, i + 1, m, o, p, k + 1)
    BY <1>15, <1>16 DEF StandsAt
  <1>18. ~n.acknowledgement
    BY <1>1, <1>4, <1>7, <1>8, <1>10
  <1> QED
    BY <1>9, <1>17, <1>18 DEF m, v

\* The next group is that of --device.
LEMMA Group3Next ==
  ASSUME NEW words, NEW i \in Nat, i > 0, NEW n \in OptionSet,
         NEW o \in OptionSet, NEW p \in Orders, NEW k \in 0..3,
         StandsAt(words, i, n, o, p, k), p[k + 1] = 3,
         Groups(o)[p[k + 1]] # << >>
  PROVE  /\ words[i] = DEVICE /\ n.device = NULL /\ i + 1 <= Len(words)
         /\ StandsAt(words, i + 2, [n EXCEPT !.device = words[i + 1]],
                     o, p, k + 1)
  <1> DEFINE P == Placed(p, k)
             Q == Placed(p, k + 1)
             s == <<DEVICE, o.device>>
  <1>1. Q = P \cup {3} /\ 3 \notin P
    BY PlacedMore
  <1>2. o.device # NULL
    BY GroupEmpty
  <1>3. Groups(o)[3] = s
    BY <1>2, GroupsAre
  <1>4. Len(s) = 2 /\ s[1] = DEVICE /\ s[2] = o.device
    OBVIOUS
  <1>5. s = Groups(o)[p[k + 1]]
    BY <1>3
  <1> HIDE DEF s
  <1>6. NextWords(words, i, s, Rest(Groups(o), p, k + 1))
    BY <1>5, TakeGroup
  <1>7. /\ i - 1 + Len(s) <= Len(words)
        /\ \A j \in 1..Len(s) : words[i - 1 + j] = s[j]
        /\ \E done \in Seq(AnyWord) :
             /\ Len(done) = i - 1 + Len(s)
             /\ words = Joint(done, Rest(Groups(o), p, k + 1))
    BY <1>6 DEF NextWords
  <1>8. i - 1 + 1 = i /\ 1 \in 1..2 /\ i - 1 + 2 = i + 1 /\ 2 \in 1..2
        /\ i - 1 + 2 = (i + 2) - 1
    OBVIOUS
  <1>9. words[i] = DEVICE /\ words[i + 1] = o.device
    BY <1>4, <1>7, <1>8
  <1>10. /\ n.json <=> (1 \in P /\ o.json)
         /\ n.acknowledgement <=> (2 \in P /\ o.acknowledgement)
         /\ n.device = IF 3 \in P THEN o.device ELSE NULL
         /\ n.output = IF 4 \in P THEN o.output ELSE NULL
    BY DEF StandsAt, Holding
  <1> DEFINE v == words[i + 1]
             m == [n EXCEPT !.device = v]
  <1>11. /\ m.device = v /\ m.json = n.json
         /\ m.acknowledgement = n.acknowledgement /\ m.output = n.output
    BY DEF OptionSet
  <1>12. v = o.device
    BY <1>9
  <1> HIDE DEF P, Q, m, v
  <1>13. /\ m.json <=> (1 \in Q /\ o.json)
         /\ m.acknowledgement <=> (2 \in Q /\ o.acknowledgement)
    BY <1>1, <1>2, <1>10, <1>11, <1>12
  <1>14. /\ m.device = IF 3 \in Q THEN o.device ELSE NULL
         /\ m.output = IF 4 \in Q THEN o.output ELSE NULL
    BY <1>1, <1>10, <1>11, <1>12
  <1>15. Holding(m, o, p, k + 1)
    BY <1>13, <1>14 DEF Holding, Q
  <1>16. \E done \in Seq(AnyWord) :
           /\ Len(done) = (i + 2) - 1
           /\ words = Joint(done, Rest(Groups(o), p, k + 1))
    BY <1>4, <1>7, <1>8
  <1>17. StandsAt(words, i + 2, m, o, p, k + 1)
    BY <1>15, <1>16 DEF StandsAt
  <1>18. n.device = NULL /\ i + 1 <= Len(words)
    BY <1>1, <1>4, <1>7, <1>8, <1>10
  <1> QED
    BY <1>9, <1>17, <1>18 DEF m, v

\* The next group is that of --output.
LEMMA Group4Next ==
  ASSUME NEW words, NEW i \in Nat, i > 0, NEW n \in OptionSet,
         NEW o \in OptionSet, NEW p \in Orders, NEW k \in 0..3,
         StandsAt(words, i, n, o, p, k), p[k + 1] = 4,
         Groups(o)[p[k + 1]] # << >>
  PROVE  /\ words[i] = OUTPUT /\ n.output = NULL /\ i + 1 <= Len(words)
         /\ StandsAt(words, i + 2, [n EXCEPT !.output = words[i + 1]],
                     o, p, k + 1)
  <1> DEFINE P == Placed(p, k)
             Q == Placed(p, k + 1)
             s == <<OUTPUT, o.output>>
  <1>1. Q = P \cup {4} /\ 4 \notin P
    BY PlacedMore
  <1>2. o.output # NULL
    BY GroupEmpty
  <1>3. Groups(o)[4] = s
    BY <1>2, GroupsAre
  <1>4. Len(s) = 2 /\ s[1] = OUTPUT /\ s[2] = o.output
    OBVIOUS
  <1>5. s = Groups(o)[p[k + 1]]
    BY <1>3
  <1> HIDE DEF s
  <1>6. NextWords(words, i, s, Rest(Groups(o), p, k + 1))
    BY <1>5, TakeGroup
  <1>7. /\ i - 1 + Len(s) <= Len(words)
        /\ \A j \in 1..Len(s) : words[i - 1 + j] = s[j]
        /\ \E done \in Seq(AnyWord) :
             /\ Len(done) = i - 1 + Len(s)
             /\ words = Joint(done, Rest(Groups(o), p, k + 1))
    BY <1>6 DEF NextWords
  <1>8. i - 1 + 1 = i /\ 1 \in 1..2 /\ i - 1 + 2 = i + 1 /\ 2 \in 1..2
        /\ i - 1 + 2 = (i + 2) - 1
    OBVIOUS
  <1>9. words[i] = OUTPUT /\ words[i + 1] = o.output
    BY <1>4, <1>7, <1>8
  <1>10. /\ n.json <=> (1 \in P /\ o.json)
         /\ n.acknowledgement <=> (2 \in P /\ o.acknowledgement)
         /\ n.device = IF 3 \in P THEN o.device ELSE NULL
         /\ n.output = IF 4 \in P THEN o.output ELSE NULL
    BY DEF StandsAt, Holding
  <1> DEFINE v == words[i + 1]
             m == [n EXCEPT !.output = v]
  <1>11. /\ m.output = v /\ m.json = n.json
         /\ m.acknowledgement = n.acknowledgement /\ m.device = n.device
    BY DEF OptionSet
  <1>12. v = o.output
    BY <1>9
  <1> HIDE DEF P, Q, m, v
  <1>13. /\ m.json <=> (1 \in Q /\ o.json)
         /\ m.acknowledgement <=> (2 \in Q /\ o.acknowledgement)
    BY <1>1, <1>2, <1>10, <1>11, <1>12
  <1>14. /\ m.device = IF 3 \in Q THEN o.device ELSE NULL
         /\ m.output = IF 4 \in Q THEN o.output ELSE NULL
    BY <1>1, <1>10, <1>11, <1>12
  <1>15. Holding(m, o, p, k + 1)
    BY <1>13, <1>14 DEF Holding, Q
  <1>16. \E done \in Seq(AnyWord) :
           /\ Len(done) = (i + 2) - 1
           /\ words = Joint(done, Rest(Groups(o), p, k + 1))
    BY <1>4, <1>7, <1>8
  <1>17. StandsAt(words, i + 2, m, o, p, k + 1)
    BY <1>15, <1>16 DEF StandsAt
  <1>18. n.output = NULL /\ i + 1 <= Len(words)
    BY <1>1, <1>4, <1>7, <1>8, <1>10
  <1> QED
    BY <1>9, <1>17, <1>18 DEF m, v

\* The next words are those of an option that was not given before.
LEMMA NextGroup ==
  ASSUME NEW words, NEW i \in Nat, i > 0, i <= Len(words), NEW n \in OptionSet,
         NEW o \in OptionSet, NEW p \in Orders, NEW k \in 0..4,
         StandsAt(words, i, n, o, p, k)
  PROVE  \E m \in 0..4 :
           \/ /\ words[i] = JSON /\ ~n.json
              /\ StandsAt(words, i + 1, [n EXCEPT !.json = TRUE], o, p, m)
           \/ /\ words[i] = ACK /\ ~n.acknowledgement
              /\ StandsAt(words, i + 1, [n EXCEPT !.acknowledgement = TRUE],
                          o, p, m)
           \/ /\ words[i] = DEVICE /\ n.device = NULL /\ i + 1 <= Len(words)
              /\ StandsAt(words, i + 2, [n EXCEPT !.device = words[i + 1]],
                          o, p, m)
           \/ /\ words[i] = OUTPUT /\ n.output = NULL /\ i + 1 <= Len(words)
              /\ StandsAt(words, i + 2, [n EXCEPT !.output = words[i + 1]],
                          o, p, m)
  <1>1. PICK m \in 0..3 : /\ StandsAt(words, i, n, o, p, m)
                          /\ Groups(o)[p[m + 1]] # << >>
    BY GroupAhead
  <1>2. m + 1 \in 0..4
    OBVIOUS
  <1>3. p[m + 1] = 1 \/ p[m + 1] = 2 \/ p[m + 1] = 3 \/ p[m + 1] = 4
    <2>1. p[m + 1] \in 1..4
      BY PlacedMore
    <2> QED
      BY <2>1
  <1>4. p[m + 1] = 1 => /\ words[i] = JSON /\ ~n.json
                        /\ StandsAt(words, i + 1, [n EXCEPT !.json = TRUE],
                                    o, p, m + 1)
    BY <1>1, Group1Next
  <1>5. p[m + 1] = 2 =>
          /\ words[i] = ACK /\ ~n.acknowledgement
          /\ StandsAt(words, i + 1, [n EXCEPT !.acknowledgement = TRUE],
                      o, p, m + 1)
    BY <1>1, Group2Next
  <1>6. p[m + 1] = 3 =>
          /\ words[i] = DEVICE /\ n.device = NULL /\ i + 1 <= Len(words)
          /\ StandsAt(words, i + 2, [n EXCEPT !.device = words[i + 1]],
                      o, p, m + 1)
    BY <1>1, Group3Next
  <1>7. p[m + 1] = 4 =>
          /\ words[i] = OUTPUT /\ n.output = NULL /\ i + 1 <= Len(words)
          /\ StandsAt(words, i + 2, [n EXCEPT !.output = words[i + 1]],
                      o, p, m + 1)
    BY <1>1, Group4Next
  <1> QED
    BY <1>2, <1>3, <1>4, <1>5, <1>6, <1>7

\* The words after the command are words, and the loop stands at most one
\* behind the last.
CliTypeOK ==
  /\ argv \in Seq(AnyWord)
  /\ \A i \in 2..Len(argv) : argv[i] \in Words
  /\ options \in OptionSet
  /\ index \in Nat /\ index >= 2
  /\ verdict = "parsing" =>
       argv # << >> /\ argv[1] \in Commands /\ index <= Len(argv) + 1

\* What was read is a usage line with the options held, as far as it goes.
ReadIsLine ==
  verdict = "parsing" =>
    SubSeq(argv, 1, index - 1) \in Lines(argv[1], options)

\* Of every usage line the words are, the loop has read a number of groups.
OnEveryLine ==
  verdict = "parsing" =>
    \A o \in UsageOptions(argv[1]), p \in Orders :
      argv = Line(argv[1], o, p) =>
        \E k \in 0..4 : StandsAt(argv, index, options, o, p, k)

\* The inductive invariant of the parser.
CliInv == CliTypeOK /\ ReadIsLine /\ OnEveryLine /\ AcceptsUsage

\* Options of a usage line are options.
LEMMA UsageOptionsAre ==
  ASSUME NEW c \in Commands, NEW o \in UsageOptions(c)
  PROVE  o \in OptionSet /\ Complete(c, o)
  <1>1. c = "list" \/ c = "inspect" \/ c = "test-1581"
    BY DEF Commands
  <1>2. CASE c = "list"
    BY <1>2, WordsAssumption DEF UsageOptions, OptionSet, Complete
  <1>3. CASE c = "inspect"
    BY <1>3, WordsAssumption DEF UsageOptions, OptionSet, Complete
  <1>4. CASE c = "test-1581"
    BY <1>4, WordsAssumption DEF UsageOptions, OptionSet, Complete
  <1> QED
    BY <1>1, <1>2, <1>3, <1>4

\* Complete options are those of a usage line.
LEMMA CompleteAre ==
  ASSUME NEW c \in Commands, NEW o \in OptionSet, Complete(c, o)
  PROVE  o \in UsageOptions(c)
  <1>1. c = "list" \/ c = "inspect" \/ c = "test-1581"
    BY DEF Commands
  <1>2. CASE c = "list"
    BY <1>2 DEF UsageOptions, OptionSet, Complete
  <1>3. CASE c = "inspect"
    BY <1>3 DEF UsageOptions, OptionSet, Complete
  <1>4. CASE c = "test-1581"
    BY <1>4 DEF UsageOptions, OptionSet, Complete
  <1> QED
    BY <1>1, <1>2, <1>3, <1>4

\* Completeness depends on what is held.
LEMMA HeldIsComplete ==
  ASSUME NEW c \in Commands, NEW o \in OptionSet, NEW n \in OptionSet,
         NEW p \in Orders, Holding(n, o, p, 4), Complete(c, o)
  PROVE  Complete(c, n)
  <1>1. /\ n.json <=> o.json
        /\ n.acknowledgement <=> o.acknowledgement
        /\ n.device = o.device /\ n.output = o.output
    <2>1. 1 \in Placed(p, 4) /\ 2 \in Placed(p, 4) /\ 3 \in Placed(p, 4)
          /\ 4 \in Placed(p, 4)
      BY PlacedMore
    <2> QED
      BY <2>1 DEF Holding
  <1>2. c = "list" \/ c = "inspect" \/ c = "test-1581"
    BY DEF Commands
  <1>3. CASE c = "list"
    BY <1>1, <1>3 DEF Complete
  <1>4. CASE c = "inspect"
    BY <1>1, <1>4 DEF Complete
  <1>5. CASE c = "test-1581"
    BY <1>1, <1>5 DEF Complete
  <1> QED
    BY <1>2, <1>3, <1>4, <1>5

\* Without an option the line of a command is the command.
LEMMA BareLine ==
  ASSUME NEW o \in OptionSet, ~o.json, ~o.acknowledgement, o.device = NULL,
         o.output = NULL, NEW c \in AnyWord
  PROVE  <<c>> \in Lines(c, o)
  <1> DEFINE g == Groups(o)
             s == <<c>>
             e == << >>
             p == [i \in 1..4 |-> i]
  <1>1. g[1] = e /\ g[2] = e /\ g[3] = e /\ g[4] = e
    BY GroupsAre
  <1>2. p \in Orders /\ p[1] = 1 /\ p[2] = 2 /\ p[3] = 3 /\ p[4] = 4
    BY DEF Orders
  <1>3. s \in Seq(AnyWord)
    OBVIOUS
  <1>4. Joint(s, e) = s
    BY <1>3, JointEmpty
  <1>5. Line(c, o, p) = Cat(s, g, p)
    BY Zenon DEF Line, Cat, Joint
  <1> HIDE DEF g, s, e, p
  <1>6. Cat(s, g, p) = s
    BY <1>1, <1>2, <1>4 DEF Cat
  <1>7. s = Line(c, o, p)
    BY <1>5, <1>6
  <1> QED
    BY <1>2, <1>7 DEF Lines, s

\* The words as main gets them.
LEMMA CliInitInv == CliInit => CliInv
  <1> SUFFICES ASSUME CliInit PROVE CliInv
    OBVIOUS
  <1>1. /\ options \in OptionSet /\ ~options.json /\ ~options.acknowledgement
        /\ options.device = NULL /\ options.output = NULL
    BY DEF CliInit, OptionSet
  <1>2. index = 2 /\ verdict \in {"parsing", "refused"}
    BY DEF CliInit
  <1>3. CASE argv = << >>
    <2>1. verdict = "refused" /\ Len(argv) = 0
      BY <1>3 DEF CliInit
    <2>2. CliTypeOK
      BY <1>1, <1>2, <1>3, <2>1 DEF CliTypeOK
    <2> QED
      BY <2>1, <2>2 DEF CliInv, ReadIsLine, OnEveryLine, AcceptsUsage
  <1>4. CASE argv # << >>
    <2>1. PICK command \in Commands \cup {"bogus"} :
            \E rest \in UNION {[1..n -> Words] : n \in 0..MaxWords} :
              argv = Joint(<<command>>, rest)
      <3> DEFINE C == Commands \cup {"bogus"}
                 R == UNION {[1..n -> Words] : n \in 0..MaxWords}
                 e == << >>
                 F(c, t) == <<c>> \o t
      <3>1. argv \in Argv
        BY Zenon DEF CliInit
      <3>2. Argv = {e} \cup {F(c, t) : c \in C, t \in R}
        BY DEF Argv
      <3>3. argv # e
        BY <1>4
      <3>4. \A c, t : F(c, t) = Joint(<<c>>, t)
        BY Zenon DEF Joint
      <3> HIDE DEF C, R, e, F
      <3>5. \E c \in C : \E t \in R : argv = Joint(<<c>>, t)
        BY <3>1, <3>2, <3>3, <3>4
      <3> QED
        BY <3>5 DEF C, R
    <2>2. PICK rest \in UNION {[1..n -> Words] : n \in 0..MaxWords} :
            argv = Joint(<<command>>, rest)
      BY <2>1
    <2>3. PICK n \in 0..MaxWords : rest \in [1..n -> Words]
      OBVIOUS
    <2>4. rest \in Seq(Words) /\ <<command>> \in Seq(AnyWord)
          /\ command \in AnyWord
      <3>1. n \in Nat
        BY MaxWordsAssumption
      <3>2. command \in AnyWord
        BY DEF AnyWord
      <3> QED
        BY <2>3, <3>1, <3>2
    <2>5. rest \in Seq(AnyWord)
      <3>1. Words \subseteq AnyWord
        BY DEF AnyWord
      <3> QED
        BY <2>4, <3>1
    <2>6. /\ argv \in Seq(AnyWord) /\ argv[1] = command
          /\ \A i \in 2..Len(argv) : argv[i] \in Words
          /\ Len(argv) >= 1
      <3> DEFINE s == <<command>>
      <3>1. s \in Seq(AnyWord) /\ Len(s) = 1 /\ s[1] = command
        BY <2>4
      <3> HIDE DEF s
      <3>2. argv = Joint(s, rest)
        BY <2>2 DEF s
      <3>3. argv \in Seq(AnyWord) /\ Len(argv) = 1 + Len(rest)
        BY <2>5, <3>1, <3>2, JointIs
      <3>4. argv[1] = command
        <4>1. 1 \in 1..Len(s)
          BY <3>1
        <4>2. Joint(s, rest)[1] = s[1]
          BY <2>5, <3>1, <4>1, JointLeft
        <4> QED
          BY <3>1, <3>2, <4>2
      <3>5. ASSUME NEW i \in 2..Len(argv) PROVE argv[i] \in Words
        <4> DEFINE j == i - 1
        <4>1. j \in 1..Len(rest) /\ i = 1 + j
          BY <2>4, <3>3
        <4> HIDE DEF j
        <4>2. Joint(s, rest)[Len(s) + j] = rest[j]
          BY <2>5, <3>1, <4>1, JointRight
        <4>3. argv[i] = rest[j]
          BY <3>1, <3>2, <4>1, <4>2
        <4> QED
          BY <2>4, <4>1, <4>3
      <3>6. Len(argv) >= 1
        BY <2>4, <3>3
      <3> QED
        BY <3>3, <3>4, <3>5, <3>6
    <2>7. CliTypeOK
      BY <1>1, <1>2, <1>4, <2>6 DEF CliTypeOK, CliInit
    <2>8. ReadIsLine
      <3> DEFINE s == SubSeq(argv, 1, 1)
                 t == <<command>>
      <3>1. s = t
        <4>1. s \in Seq(AnyWord) /\ Len(s) = 1 /\ s[1] = command
          BY <2>6
        <4>2. t \in Seq(AnyWord) /\ Len(t) = 1 /\ t[1] = command
          BY <2>4
        <4> HIDE DEF s, t
        <4>3. \A i \in 1..Len(s) : s[i] = t[i]
          BY <4>1, <4>2
        <4> QED
          BY <4>1, <4>2, <4>3, SeqEqual
      <3>2. t \in Lines(command, options)
        BY <1>1, <2>4, BareLine
      <3>3. index - 1 = 1
        BY <1>2
      <3> HIDE DEF s, t
      <3>4. SubSeq(argv, 1, index - 1) \in Lines(argv[1], options)
        BY <2>6, <3>1, <3>2, <3>3 DEF s
      <3> QED
        BY <3>4 DEF ReadIsLine
    <2>9. OnEveryLine
      <3> SUFFICES ASSUME verdict = "parsing",
                          NEW o \in UsageOptions(argv[1]), NEW p \in Orders,
                          argv = Line(argv[1], o, p)
                   PROVE  StandsAt(argv, index, options, o, p, 0)
        BY DEF OnEveryLine
      <3>1. argv[1] \in Commands
        BY DEF CliInit
      <3>2. o \in OptionSet
        BY <3>1, UsageOptionsAre
      <3>3. Line(argv[1], o, p) = Joint(<<argv[1]>>, Rest(Groups(o), p, 0))
        BY <2>4, <2>6, <3>2, LineIs
      <3> DEFINE done == <<argv[1]>>
      <3>4. done \in Seq(AnyWord) /\ Len(done) = index - 1
        BY <1>2, <2>4, <2>6
      <3> HIDE DEF done
      <3>5. argv = Joint(done, Rest(Groups(o), p, 0))
        BY <3>3 DEF done
      <3>6. Holding(options, o, p, 0)
        BY <1>1, PlacedMore DEF Holding
      <3> QED
        BY <3>4, <3>5, <3>6 DEF StandsAt
    <2>10. AcceptsUsage
      <3>1. verdict = "refused" => argv[1] \notin Commands
        BY <1>4, <2>6 DEF CliInit
      <3> QED
        BY <1>2, <3>1 DEF AcceptsUsage
    <2> QED
      BY <2>7, <2>8, <2>9, <2>10 DEF CliInv
  <1> QED
    BY <1>3, <1>4

\* The first n elements of a sequence.
LEMMA Prefix ==
  ASSUME NEW S, NEW s \in Seq(S), NEW n \in 0..Len(s)
  PROVE  /\ SubSeq(s, 1, n) \in Seq(S) /\ Len(SubSeq(s, 1, n)) = n
         /\ \A i \in 1..n : SubSeq(s, 1, n)[i] = s[i]
  OBVIOUS

\* A longer prefix is a shorter one and the words in between.
LEMMA PrefixJoint ==
  ASSUME NEW S, NEW words \in Seq(S), NEW s \in Seq(S), NEW d \in Nat,
         d + Len(s) <= Len(words),
         \A l \in 1..Len(s) : words[d + l] = s[l]
  PROVE  SubSeq(words, 1, d + Len(s)) = Joint(SubSeq(words, 1, d), s)
  <1> DEFINE m == Len(s)
             t == SubSeq(words, 1, d + m)
             u == SubSeq(words, 1, d)
             v == Joint(u, s)
  <1>1. /\ m \in Nat /\ d + m \in 0..Len(words) /\ d \in 0..Len(words)
        /\ d + m \in Nat
    OBVIOUS
  <1> HIDE DEF m
  <1>2. /\ u \in Seq(S) /\ Len(u) = d
        /\ \A i \in 1..d : u[i] = words[i]
    BY <1>1, Prefix
  <1>3. /\ t \in Seq(S) /\ Len(t) = d + m
        /\ \A i \in 1..d + m : t[i] = words[i]
    BY <1>1, Prefix
  <1> HIDE DEF t, u
  <1>4. v \in Seq(S) /\ Len(v) = d + m
    BY <1>2, JointIs DEF m
  <1>5. ASSUME NEW i \in 1..d PROVE t[i] = v[i]
    <2>1. i \in 1..Len(u) /\ i \in 1..d + m
      BY <1>1, <1>2
    <2>2. v[i] = u[i]
      BY <1>2, <2>1, JointLeft
    <2> QED
      BY <1>2, <1>3, <2>1, <2>2
  <1>6. ASSUME NEW l \in 1..m PROVE t[d + l] = v[d + l]
    <2>1. v[Len(u) + l] = s[l]
      <3>1. l \in 1..Len(s)
        BY DEF m
      <3>2. u \in Seq(S)
        BY <1>2
      <3> HIDE DEF v
      <3>3. Joint(u, s)[Len(u) + l] = s[l]
        BY <3>1, <3>2, JointRight
      <3> QED
        BY <3>3 DEF v
    <2>2. words[d + l] = s[l]
      BY DEF m
    <2>3. d + l \in 1..d + m
      BY <1>1
    <2> HIDE DEF v
    <2> QED
      BY <1>2, <1>3, <2>1, <2>2, <2>3
  <1> HIDE DEF v
  <1>7. ASSUME NEW i \in 1..Len(t) PROVE t[i] = v[i]
    <2>1. CASE i <= d
      <3>1. i \in 1..d
        BY <1>3, <2>1
      <3> QED
        BY <1>5, <3>1
    <2>2. CASE i > d
      <3> DEFINE l == i - d
      <3>1. l \in 1..m /\ d + l = i
        BY <1>1, <1>3, <2>2
      <3> HIDE DEF l
      <3> QED
        BY <1>6, <3>1
    <2>3. i <= d \/ i > d
      BY <1>1, <1>3
    <2> QED
      BY <2>1, <2>2, <2>3
  <1>8. t = v
    BY <1>3, <1>4, <1>7, SeqEqual
  <1> QED
    BY <1>8 DEF t, u, v, m

\* The words of s come after the first d words.
Follows(words, d, s) ==
  d + Len(s) <= Len(words) /\ \A l \in 1..Len(s) : words[d + l] = s[l]

\* The options m have the group s and all the groups of n.
Adds(n, m, s) ==
  \E j \in 1..4 : FillsOnly(Groups(n), Groups(m), j) /\ s = Groups(m)[j]

\* The words of a new group, read after a line, make a longer line.
LEMMA ReadMore ==
  ASSUME NEW words \in Seq(AnyWord), NEW d \in Nat, NEW c \in AnyWord,
         NEW n \in OptionSet, NEW m \in OptionSet,
         NEW s, Adds(n, m, s),
         SubSeq(words, 1, d) \in Lines(c, n), Follows(words, d, s)
  PROVE  SubSeq(words, 1, d + Len(s)) \in Lines(c, m)
  <1> PICK j \in 1..4 : FillsOnly(Groups(n), Groups(m), j) /\ s = Groups(m)[j]
    BY DEF Adds
  <1>1. s \in Seq(AnyWord)
    BY GroupsAre
  <1> DEFINE t == SubSeq(words, 1, d)
             u == SubSeq(words, 1, d + Len(s))
  <1>2. u = Joint(t, s)
    BY <1>1, PrefixJoint DEF Follows
  <1> HIDE DEF t, u
  <1>3. Joint(t, s) \in Lines(c, m)
    <2>1. t \in Lines(c, n)
      BY DEF t
    <2> QED
      BY <2>1, TakeKeeps
  <1> QED
    BY <1>2, <1>3 DEF u

\* The same option has the same group.
SameGroup(m, n, j) == Groups(m)[j] = Groups(n)[j]

\* Each group depends on its own option only.
LEMMA SameGroups ==
  ASSUME NEW n \in OptionSet, NEW m \in OptionSet
  PROVE  /\ (m.json <=> n.json) => SameGroup(m, n, 1)
         /\ (m.acknowledgement <=> n.acknowledgement) => SameGroup(m, n, 2)
         /\ m.device = n.device => SameGroup(m, n, 3)
         /\ m.output = n.output => SameGroup(m, n, 4)
  <1> DEFINE a == <<JSON>>
             b == <<ACK>>
             c(x) == <<DEVICE, x>>
             d(x) == <<OUTPUT, x>>
             e == << >>
  <1>1. ASSUME NEW o \in OptionSet
        PROVE  /\ Groups(o)[1] = IF o.json THEN a ELSE e
               /\ Groups(o)[2] = IF o.acknowledgement THEN b ELSE e
               /\ Groups(o)[3] = IF o.device # NULL THEN c(o.device) ELSE e
               /\ Groups(o)[4] = IF o.output # NULL THEN d(o.output) ELSE e
    BY GroupsAre
  <1> HIDE DEF a, b, c, d, e
  <1>2. /\ Groups(m)[1] = IF m.json THEN a ELSE e
        /\ Groups(m)[2] = IF m.acknowledgement THEN b ELSE e
        /\ Groups(m)[3] = IF m.device # NULL THEN c(m.device) ELSE e
        /\ Groups(m)[4] = IF m.output # NULL THEN d(m.output) ELSE e
    BY <1>1
  <1>3. /\ Groups(n)[1] = IF n.json THEN a ELSE e
        /\ Groups(n)[2] = IF n.acknowledgement THEN b ELSE e
        /\ Groups(n)[3] = IF n.device # NULL THEN c(n.device) ELSE e
        /\ Groups(n)[4] = IF n.output # NULL THEN d(n.output) ELSE e
    BY <1>1
  <1>4. (m.json <=> n.json) => Groups(m)[1] = Groups(n)[1]
    BY <1>2, <1>3
  <1>5. (m.acknowledgement <=> n.acknowledgement) =>
          Groups(m)[2] = Groups(n)[2]
    BY <1>2, <1>3
  <1>6. m.device = n.device => Groups(m)[3] = Groups(n)[3]
    BY <1>2, <1>3
  <1>7. m.output = n.output => Groups(m)[4] = Groups(n)[4]
    BY <1>2, <1>3
  <1> QED
    BY <1>4, <1>5, <1>6, <1>7, Zenon DEF SameGroup

\* The words so far end with those that were just read.
LEMMA WordsRead ==
  ASSUME NEW words \in Seq(AnyWord), NEW i \in Nat, i >= 2, NEW a, NEW b
  PROVE  /\ i <= Len(words) /\ words[i] = a =>
              \A l \in 1..1 : words[i - 1 + l] = <<a>>[l]
         /\ i + 1 <= Len(words) /\ words[i] = a /\ words[i + 1] = b =>
              \A l \in 1..2 : words[i - 1 + l] = <<a, b>>[l]
  <1>1. /\ i - 1 + 1 = i /\ i - 1 + 2 = i + 1
        /\ \A l \in 1..1 : l = 1
        /\ \A l \in 1..2 : l = 1 \/ l = 2
    OBVIOUS
  <1> DEFINE s == <<a>>
             t == <<a, b>>
  <1>2. s[1] = a /\ t[1] = a /\ t[2] = b
    OBVIOUS
  <1> HIDE DEF s, t
  <1>3. /\ words[i] = a => \A l \in 1..1 : words[i - 1 + l] = s[l]
        /\ words[i] = a /\ words[i + 1] = b =>
             \A l \in 1..2 : words[i - 1 + l] = t[l]
    BY <1>1, <1>2
  <1> QED
    BY <1>3 DEF s, t

\* --json read by the parser.
LEMMA JsonRead ==
  ASSUME NEW words \in Seq(AnyWord), NEW i \in Nat, i >= 2,
         NEW c \in AnyWord, NEW n \in OptionSet, ~n.json,
         i <= Len(words), words[i] = JSON,
         SubSeq(words, 1, i - 1) \in Lines(c, n)
  PROVE  /\ [n EXCEPT !.json = TRUE] \in OptionSet
         /\ SubSeq(words, 1, (i + 1) - 1)
              \in Lines(c, [n EXCEPT !.json = TRUE])
  <1> DEFINE m == [n EXCEPT !.json = TRUE]
             s == <<JSON>>
             d == i - 1
  <1>1. m \in OptionSet /\ m.json = TRUE
    BY DEF OptionSet
  <1>2. /\ m.acknowledgement <=> n.acknowledgement
        /\ m.device = n.device
        /\ m.output = n.output
    BY DEF OptionSet
  <1>3. m.json
    BY <1>1
  <1> HIDE DEF m
  <1>4. Groups(m)[1] = s /\ Groups(n)[1] = << >>
    BY <1>1, <1>3, GroupsAre
  <1>5. \A j \in 1..4 \ {1} : Groups(m)[j] = Groups(n)[j]
    <2>1. SameGroup(m, n, 2) /\ SameGroup(m, n, 3) /\ SameGroup(m, n, 4)
      BY <1>1, <1>2, SameGroups
    <2>2. \A j \in 1..4 \ {1} : j = 2 \/ j = 3 \/ j = 4
      OBVIOUS
    <2> QED
      BY <2>1, <2>2 DEF SameGroup
  <1>6. FillsOnly(Groups(n), Groups(m), 1)
    BY <1>4, <1>5 DEF FillsOnly
  <1>7. d \in Nat /\ Len(s) = 1 /\ d + 1 <= Len(words)
        /\ d + 1 = (i + 1) - 1
    OBVIOUS
  <1>8. \A l \in 1..1 : words[d + l] = s[l]
    BY WordsRead
  <1> HIDE DEF s, d
  <1>9. Follows(words, d, s)
    BY <1>7, <1>8 DEF Follows
  <1>10. SubSeq(words, 1, d) \in Lines(c, n)
    BY DEF d
  <1>11. SubSeq(words, 1, d + Len(s)) \in Lines(c, m)
    <2>1. Adds(n, m, s)
      <3>1. s = Groups(m)[1] /\ 1 \in 1..4
        BY <1>4
      <3> QED
        BY <1>6, <3>1 DEF Adds
    <2>2. m \in OptionSet /\ d \in Nat
      BY <1>1, <1>7
    <2> QED
      BY <1>9, <1>10, <2>1, <2>2, ReadMore
  <1> QED
    BY <1>1, <1>7, <1>11 DEF m

\* --ack-temporary-controller-change read by the parser.
LEMMA AcknowledgementRead ==
  ASSUME NEW words \in Seq(AnyWord), NEW i \in Nat, i >= 2,
         NEW c \in AnyWord, NEW n \in OptionSet, ~n.acknowledgement,
         i <= Len(words), words[i] = ACK,
         SubSeq(words, 1, i - 1) \in Lines(c, n)
  PROVE  /\ [n EXCEPT !.acknowledgement = TRUE] \in OptionSet
         /\ SubSeq(words, 1, (i + 1) - 1)
              \in Lines(c, [n EXCEPT !.acknowledgement = TRUE])
  <1> DEFINE m == [n EXCEPT !.acknowledgement = TRUE]
             s == <<ACK>>
             d == i - 1
  <1>1. m \in OptionSet /\ m.acknowledgement = TRUE
    BY DEF OptionSet
  <1>2. /\ m.json <=> n.json
        /\ m.device = n.device
        /\ m.output = n.output
    BY DEF OptionSet
  <1>3. m.acknowledgement
    BY <1>1
  <1> HIDE DEF m
  <1>4. Groups(m)[2] = s /\ Groups(n)[2] = << >>
    BY <1>1, <1>3, GroupsAre
  <1>5. \A j \in 1..4 \ {2} : Groups(m)[j] = Groups(n)[j]
    <2>1. SameGroup(m, n, 1) /\ SameGroup(m, n, 3) /\ SameGroup(m, n, 4)
      BY <1>1, <1>2, SameGroups
    <2>2. \A j \in 1..4 \ {2} : j = 1 \/ j = 3 \/ j = 4
      OBVIOUS
    <2> QED
      BY <2>1, <2>2 DEF SameGroup
  <1>6. FillsOnly(Groups(n), Groups(m), 2)
    BY <1>4, <1>5 DEF FillsOnly
  <1>7. d \in Nat /\ Len(s) = 1 /\ d + 1 <= Len(words)
        /\ d + 1 = (i + 1) - 1
    OBVIOUS
  <1>8. \A l \in 1..1 : words[d + l] = s[l]
    BY WordsRead
  <1> HIDE DEF s, d
  <1>9. Follows(words, d, s)
    BY <1>7, <1>8 DEF Follows
  <1>10. SubSeq(words, 1, d) \in Lines(c, n)
    BY DEF d
  <1>11. SubSeq(words, 1, d + Len(s)) \in Lines(c, m)
    <2>1. Adds(n, m, s)
      <3>1. s = Groups(m)[2] /\ 2 \in 1..4
        BY <1>4
      <3> QED
        BY <1>6, <3>1 DEF Adds
    <2>2. m \in OptionSet /\ d \in Nat
      BY <1>1, <1>7
    <2> QED
      BY <1>9, <1>10, <2>1, <2>2, ReadMore
  <1> QED
    BY <1>1, <1>7, <1>11 DEF m

\* --device and its value read by the parser.
LEMMA DeviceRead ==
  ASSUME NEW words \in Seq(AnyWord), NEW i \in Nat, i >= 2,
         NEW c \in AnyWord, NEW n \in OptionSet, n.device = NULL,
         i + 1 <= Len(words), words[i] = DEVICE, NEW v \in Words,
         words[i + 1] = v,
         SubSeq(words, 1, i - 1) \in Lines(c, n)
  PROVE  /\ [n EXCEPT !.device = v] \in OptionSet
         /\ SubSeq(words, 1, (i + 2) - 1)
              \in Lines(c, [n EXCEPT !.device = v])
  <1> DEFINE m == [n EXCEPT !.device = v]
             s == <<DEVICE, v>>
             d == i - 1
  <1>1. m \in OptionSet /\ m.device = v
    BY DEF OptionSet
  <1>2. /\ m.json <=> n.json
        /\ m.acknowledgement <=> n.acknowledgement
        /\ m.output = n.output
    BY DEF OptionSet
  <1>3. v # NULL
    BY WordsAssumption
  <1> HIDE DEF m
  <1>4. Groups(m)[3] = s /\ Groups(n)[3] = << >>
    BY <1>1, <1>3, GroupsAre
  <1>5. \A j \in 1..4 \ {3} : Groups(m)[j] = Groups(n)[j]
    <2>1. SameGroup(m, n, 1) /\ SameGroup(m, n, 2) /\ SameGroup(m, n, 4)
      BY <1>1, <1>2, SameGroups
    <2>2. \A j \in 1..4 \ {3} : j = 1 \/ j = 2 \/ j = 4
      OBVIOUS
    <2> QED
      BY <2>1, <2>2 DEF SameGroup
  <1>6. FillsOnly(Groups(n), Groups(m), 3)
    BY <1>4, <1>5 DEF FillsOnly
  <1>7. d \in Nat /\ Len(s) = 2 /\ d + 2 <= Len(words)
        /\ d + 2 = (i + 2) - 1
    OBVIOUS
  <1>8. \A l \in 1..2 : words[d + l] = s[l]
    BY WordsRead
  <1> HIDE DEF s, d
  <1>9. Follows(words, d, s)
    BY <1>7, <1>8 DEF Follows
  <1>10. SubSeq(words, 1, d) \in Lines(c, n)
    BY DEF d
  <1>11. SubSeq(words, 1, d + Len(s)) \in Lines(c, m)
    <2>1. Adds(n, m, s)
      <3>1. s = Groups(m)[3] /\ 3 \in 1..4
        BY <1>4
      <3> QED
        BY <1>6, <3>1 DEF Adds
    <2>2. m \in OptionSet /\ d \in Nat
      BY <1>1, <1>7
    <2> QED
      BY <1>9, <1>10, <2>1, <2>2, ReadMore
  <1> QED
    BY <1>1, <1>7, <1>11 DEF m

\* --output and its value read by the parser.
LEMMA OutputRead ==
  ASSUME NEW words \in Seq(AnyWord), NEW i \in Nat, i >= 2,
         NEW c \in AnyWord, NEW n \in OptionSet, n.output = NULL,
         i + 1 <= Len(words), words[i] = OUTPUT, NEW v \in Words,
         words[i + 1] = v,
         SubSeq(words, 1, i - 1) \in Lines(c, n)
  PROVE  /\ [n EXCEPT !.output = v] \in OptionSet
         /\ SubSeq(words, 1, (i + 2) - 1)
              \in Lines(c, [n EXCEPT !.output = v])
  <1> DEFINE m == [n EXCEPT !.output = v]
             s == <<OUTPUT, v>>
             d == i - 1
  <1>1. m \in OptionSet /\ m.output = v
    BY DEF OptionSet
  <1>2. /\ m.json <=> n.json
        /\ m.acknowledgement <=> n.acknowledgement
        /\ m.device = n.device
    BY DEF OptionSet
  <1>3. v # NULL
    BY WordsAssumption
  <1> HIDE DEF m
  <1>4. Groups(m)[4] = s /\ Groups(n)[4] = << >>
    BY <1>1, <1>3, GroupsAre
  <1>5. \A j \in 1..4 \ {4} : Groups(m)[j] = Groups(n)[j]
    <2>1. SameGroup(m, n, 1) /\ SameGroup(m, n, 2) /\ SameGroup(m, n, 3)
      BY <1>1, <1>2, SameGroups
    <2>2. \A j \in 1..4 \ {4} : j = 1 \/ j = 2 \/ j = 3
      OBVIOUS
    <2> QED
      BY <2>1, <2>2 DEF SameGroup
  <1>6. FillsOnly(Groups(n), Groups(m), 4)
    BY <1>4, <1>5 DEF FillsOnly
  <1>7. d \in Nat /\ Len(s) = 2 /\ d + 2 <= Len(words)
        /\ d + 2 = (i + 2) - 1
    OBVIOUS
  <1>8. \A l \in 1..2 : words[d + l] = s[l]
    BY WordsRead
  <1> HIDE DEF s, d
  <1>9. Follows(words, d, s)
    BY <1>7, <1>8 DEF Follows
  <1>10. SubSeq(words, 1, d) \in Lines(c, n)
    BY DEF d
  <1>11. SubSeq(words, 1, d + Len(s)) \in Lines(c, m)
    <2>1. Adds(n, m, s)
      <3>1. s = Groups(m)[4] /\ 4 \in 1..4
        BY <1>4
      <3> QED
        BY <1>6, <3>1 DEF Adds
    <2>2. m \in OptionSet /\ d \in Nat
      BY <1>1, <1>7
    <2> QED
      BY <1>9, <1>10, <2>1, <2>2, ReadMore
  <1> QED
    BY <1>1, <1>7, <1>11 DEF m

\* The words at i are an option that n does not hold: the loop goes on at j
\* with the options m.
Reads(words, i, n, j, m) ==
  \/ /\ words[i] = JSON /\ ~n.json
     /\ j = i + 1 /\ m = [n EXCEPT !.json = TRUE]
  \/ /\ words[i] = ACK /\ ~n.acknowledgement
     /\ j = i + 1 /\ m = [n EXCEPT !.acknowledgement = TRUE]
  \/ /\ words[i] = DEVICE /\ n.device = NULL /\ i + 1 <= Len(words)
     /\ j = i + 2 /\ m = [n EXCEPT !.device = words[i + 1]]
  \/ /\ words[i] = OUTPUT /\ n.output = NULL /\ i + 1 <= Len(words)
     /\ j = i + 2 /\ m = [n EXCEPT !.output = words[i + 1]]

\* The loop can do one thing only.
LEMMA ReadsOne ==
  ASSUME NEW words, NEW i, NEW n, NEW j, NEW m, NEW k, NEW o,
         Reads(words, i, n, j, m), Reads(words, i, n, k, o)
  PROVE  j = k /\ m = o
  BY OptionWords DEF Reads

\* A usage line goes on with what the loop can read.
LEMMA LineReads ==
  ASSUME NEW words, NEW i \in Nat, i > 0, i <= Len(words), NEW n \in OptionSet,
         NEW o \in OptionSet, NEW p \in Orders, NEW k \in 0..4,
         StandsAt(words, i, n, o, p, k)
  PROVE  \E j, m : /\ Reads(words, i, n, j, m)
                   /\ \E l \in 0..4 : StandsAt(words, j, m, o, p, l)
  <1>1. PICK l \in 0..4 :
           \/ /\ words[i] = JSON /\ ~n.json
              /\ StandsAt(words, i + 1, [n EXCEPT !.json = TRUE], o, p, l)
           \/ /\ words[i] = ACK /\ ~n.acknowledgement
              /\ StandsAt(words, i + 1, [n EXCEPT !.acknowledgement = TRUE],
                          o, p, l)
           \/ /\ words[i] = DEVICE /\ n.device = NULL /\ i + 1 <= Len(words)
              /\ StandsAt(words, i + 2, [n EXCEPT !.device = words[i + 1]],
                          o, p, l)
           \/ /\ words[i] = OUTPUT /\ n.output = NULL /\ i + 1 <= Len(words)
              /\ StandsAt(words, i + 2, [n EXCEPT !.output = words[i + 1]],
                          o, p, l)
    BY NextGroup
  <1> DEFINE S(j, m) == StandsAt(words, j, m, o, p, l)
             a == [n EXCEPT !.json = TRUE]
             b == [n EXCEPT !.acknowledgement = TRUE]
             c == [n EXCEPT !.device = words[i + 1]]
             d == [n EXCEPT !.output = words[i + 1]]
  <1>2. \/ words[i] = JSON /\ ~n.json /\ S(i + 1, a)
        \/ words[i] = ACK /\ ~n.acknowledgement /\ S(i + 1, b)
        \/ /\ words[i] = DEVICE /\ n.device = NULL /\ i + 1 <= Len(words)
           /\ S(i + 2, c)
        \/ /\ words[i] = OUTPUT /\ n.output = NULL /\ i + 1 <= Len(words)
           /\ S(i + 2, d)
    BY <1>1, Zenon
  <1>3. /\ words[i] = JSON /\ ~n.json => Reads(words, i, n, i + 1, a)
        /\ words[i] = ACK /\ ~n.acknowledgement => Reads(words, i, n, i + 1, b)
        /\ words[i] = DEVICE /\ n.device = NULL /\ i + 1 <= Len(words) =>
             Reads(words, i, n, i + 2, c)
        /\ words[i] = OUTPUT /\ n.output = NULL /\ i + 1 <= Len(words) =>
             Reads(words, i, n, i + 2, d)
    BY Zenon DEF Reads
  <1> HIDE DEF S, a, b, c, d
  <1>4. \E j, m : Reads(words, i, n, j, m) /\ S(j, m)
    BY <1>2, <1>3, Zenon
  <1> QED
    BY <1>4 DEF S

\* What the loop reads makes a longer line.
LEMMA ReadsLine ==
  ASSUME NEW words \in Seq(AnyWord), NEW i \in Nat, i >= 2, i <= Len(words),
         \A l \in 2..Len(words) : words[l] \in Words,
         NEW c \in AnyWord, NEW n \in OptionSet,
         SubSeq(words, 1, i - 1) \in Lines(c, n),
         NEW j, NEW m, Reads(words, i, n, j, m)
  PROVE  /\ m \in OptionSet /\ j \in Nat /\ j >= 2 /\ j <= Len(words) + 1
         /\ SubSeq(words, 1, j - 1) \in Lines(c, m)
  <1>1. ASSUME words[i] = JSON, ~n.json, j = i + 1,
               m = [n EXCEPT !.json = TRUE]
        PROVE  m \in OptionSet /\ SubSeq(words, 1, j - 1) \in Lines(c, m)
    BY <1>1, JsonRead
  <1>2. ASSUME words[i] = ACK, ~n.acknowledgement, j = i + 1,
               m = [n EXCEPT !.acknowledgement = TRUE]
        PROVE  m \in OptionSet /\ SubSeq(words, 1, j - 1) \in Lines(c, m)
    BY <1>2, AcknowledgementRead
  <1>3. ASSUME words[i] = DEVICE, n.device = NULL, i + 1 <= Len(words),
               j = i + 2, NEW v, v = words[i + 1], m = [n EXCEPT !.device = v]
        PROVE  m \in OptionSet /\ SubSeq(words, 1, j - 1) \in Lines(c, m)
    <2>1. v \in Words
      BY <1>3
    <2> QED
      BY <1>3, <2>1, DeviceRead
  <1>4. ASSUME words[i] = OUTPUT, n.output = NULL, i + 1 <= Len(words),
               j = i + 2, NEW v, v = words[i + 1], m = [n EXCEPT !.output = v]
        PROVE  m \in OptionSet /\ SubSeq(words, 1, j - 1) \in Lines(c, m)
    <2>1. v \in Words
      BY <1>4
    <2> QED
      BY <1>4, <2>1, OutputRead
  <1>5. m \in OptionSet /\ SubSeq(words, 1, j - 1) \in Lines(c, m)
    BY <1>1, <1>2, <1>3, <1>4 DEF Reads
  <1>6. j \in Nat /\ j >= 2 /\ j <= Len(words) + 1
    BY DEF Reads
  <1> QED
    BY <1>5, <1>6

\* Words that are a usage line are a line of some options in some order.
LEMMA UsageLineIs ==
  ASSUME NEW c \in Commands, NEW words \in UsageLines[c]
  PROVE  \E o \in UsageOptions(c) : \E p \in Orders : words = Line(c, o, p)
  BY DEF UsageLines, Lines

\* An option is read.
OptionRead ==
  /\ Parsing
  /\ Reads(argv, index, options, index', options')
  /\ UNCHANGED <<argv, verdict>>

\* A refusal at a word: the loop can read nothing there.
WordRefused ==
  /\ Parsing
  /\ \A j, m : ~Reads(argv, index, options, j, m)
  /\ Refuse

\* Every step at a word reads an option or refuses what it cannot read.
LEMMA StepsAre ==
  ASSUME CliTypeOK,
         JsonFlag \/ AckFlag \/ DeviceOption \/ OutputOption \/ UnknownOption
  PROVE  OptionRead \/ WordRefused
  <1>1. CASE JsonFlag
    BY <1>1, OptionWords
       DEF JsonFlag, Flag, OptionRead, WordRefused, Reads, Refuse, CliTypeOK,
           OptionSet
  <1>2. CASE AckFlag
    BY <1>2, OptionWords
       DEF AckFlag, Flag, OptionRead, WordRefused, Reads, Refuse, CliTypeOK,
           OptionSet
  <1>3. CASE DeviceOption
    BY <1>3, OptionWords
       DEF DeviceOption, Valued, SetOnce, OptionRead, WordRefused, Reads,
           Refuse, CliTypeOK, OptionSet
  <1>4. CASE OutputOption
    BY <1>4, OptionWords
       DEF OutputOption, Valued, SetOnce, OptionRead, WordRefused, Reads,
           Refuse, CliTypeOK, OptionSet
  <1>5. CASE UnknownOption
    BY <1>5 DEF UnknownOption, WordRefused, Reads
  <1> QED
    BY <1>1, <1>2, <1>3, <1>4, <1>5

\* Reading an option keeps the invariant.
LEMMA OptionReadKeeps ==
  ASSUME CliInv, OptionRead
  PROVE  CliInv'
  <1>1. /\ argv \in Seq(AnyWord) /\ argv[1] \in Commands /\ argv # << >>
        /\ \A l \in 2..Len(argv) : argv[l] \in Words
        /\ index \in Nat /\ index >= 2 /\ index <= Len(argv)
        /\ options \in OptionSet /\ verdict = "parsing"
    BY DEF CliInv, CliTypeOK, OptionRead, Parsing
  <1>2. argv' = argv /\ verdict' = verdict
    BY DEF OptionRead
  <1>3. Reads(argv, index, options, index', options')
    BY DEF OptionRead
  <1>4. argv[1] \in AnyWord
    BY <1>1 DEF AnyWord
  <1>5. SubSeq(argv, 1, index - 1) \in Lines(argv[1], options)
    BY <1>1 DEF CliInv, ReadIsLine
  <1>6. PICK j, m : j = index' /\ m = options'
    OBVIOUS
  <1>7. Reads(argv, index, options, j, m)
    BY <1>3, <1>6
  <1>8. /\ m \in OptionSet /\ j \in Nat /\ j >= 2 /\ j <= Len(argv) + 1
        /\ SubSeq(argv, 1, j - 1) \in Lines(argv[1], m)
    BY <1>1, <1>4, <1>5, <1>7, ReadsLine
  <1>9. CliTypeOK'
    BY <1>1, <1>2, <1>6, <1>8 DEF CliTypeOK
  <1>10. ReadIsLine'
    BY <1>2, <1>6, <1>8 DEF ReadIsLine
  <1>11. OnEveryLine'
    <2> SUFFICES ASSUME NEW o \in UsageOptions(argv[1]), NEW p \in Orders,
                        argv = Line(argv[1], o, p)
                 PROVE  \E k \in 0..4 : StandsAt(argv, j, m, o, p, k)
      BY <1>2, <1>6 DEF OnEveryLine
    <2>1. o \in OptionSet
      BY <1>1, UsageOptionsAre
    <2>2. PICK k \in 0..4 : StandsAt(argv, index, options, o, p, k)
      BY <1>1 DEF CliInv, OnEveryLine
    <2>3. PICK h, n : /\ Reads(argv, index, options, h, n)
                      /\ \E l \in 0..4 : StandsAt(argv, h, n, o, p, l)
      <3>1. index > 0
        BY <1>1
      <3> QED
        BY <1>1, <2>1, <2>2, <3>1, LineReads
    <2>4. h = j /\ n = m
      BY <1>7, <2>3, ReadsOne
    <2> QED
      BY <2>3, <2>4
  <1>12. AcceptsUsage'
    BY <1>1, <1>2 DEF AcceptsUsage
  <1> QED
    BY <1>9, <1>10, <1>11, <1>12 DEF CliInv

\* A refusal of words that are no usage line keeps the invariant.
LEMMA RefusalKeeps ==
  ASSUME CliInv, argv # << >>, argv[1] \in Commands,
         argv \notin UsageLines[argv[1]], UNCHANGED <<argv, index, options>>,
         verdict' = "refused"
  PROVE  CliInv'
  <1>1. CliTypeOK'
    BY DEF CliInv, CliTypeOK
  <1> QED
    BY <1>1 DEF CliInv, ReadIsLine, OnEveryLine, AcceptsUsage

\* A word the loop cannot read stands in no usage line.
LEMMA WordRefusedKeeps ==
  ASSUME CliInv, WordRefused
  PROVE  CliInv'
  <1>1. /\ argv[1] \in Commands /\ argv # << >>
        /\ index \in Nat /\ index > 0 /\ index <= Len(argv)
        /\ options \in OptionSet /\ verdict = "parsing"
    BY DEF CliInv, CliTypeOK, WordRefused, Parsing
  <1>2. argv \notin UsageLines[argv[1]]
    <2> SUFFICES ASSUME argv \in UsageLines[argv[1]] PROVE FALSE
      OBVIOUS
    <2>1. PICK o \in UsageOptions(argv[1]) :
            \E p \in Orders : argv = Line(argv[1], o, p)
      BY <1>1, UsageLineIs
    <2>2. PICK p \in Orders : argv = Line(argv[1], o, p)
      BY <2>1
    <2>3. o \in OptionSet
      BY <1>1, UsageOptionsAre
    <2>4. PICK k \in 0..4 : StandsAt(argv, index, options, o, p, k)
      BY <1>1, <2>2 DEF CliInv, OnEveryLine
    <2>5. \E j, m : Reads(argv, index, options, j, m)
      BY <1>1, <2>3, <2>4, LineReads
    <2> QED
      BY <2>5 DEF WordRefused
  <1> QED
    BY <1>1, <1>2, RefusalKeeps DEF WordRefused, Refuse

\* At the end of the words exactly the usage lines are complete.
LEMMA EndOfWordsKeeps ==
  ASSUME CliInv, EndOfWords
  PROVE  CliInv'
  <1>1. /\ argv \in Seq(AnyWord) /\ argv[1] \in Commands /\ argv # << >>
        /\ index \in Nat /\ index > 0 /\ index = Len(argv) + 1
        /\ options \in OptionSet /\ verdict = "parsing"
    BY DEF CliInv, CliTypeOK, EndOfWords
  <1>2. UNCHANGED <<argv, index, options>>
    BY DEF EndOfWords
  <1>3. CASE Complete(argv[1], options)
    <2>1. verdict' = "accepted"
      BY <1>3 DEF EndOfWords
    <2>2. options \in UsageOptions(argv[1])
      BY <1>1, <1>3, CompleteAre
    <2>3. argv \in Lines(argv[1], options)
      <3>1. index - 1 = Len(argv)
        BY <1>1
      <3>2. SubSeq(argv, 1, Len(argv)) = argv
        BY <1>1
      <3>3. SubSeq(argv, 1, index - 1) \in Lines(argv[1], options)
        BY <1>1 DEF CliInv, ReadIsLine
      <3> QED
        BY <3>1, <3>2, <3>3
    <2>4. CliTypeOK'
      BY <1>2, <2>1 DEF CliInv, CliTypeOK
    <2>5. AcceptsUsage'
      BY <1>2, <2>1, <2>2, <2>3 DEF AcceptsUsage
    <2> QED
      BY <2>1, <2>4, <2>5 DEF CliInv, ReadIsLine, OnEveryLine
  <1>4. CASE ~Complete(argv[1], options)
    <2>1. verdict' = "refused"
      BY <1>4 DEF EndOfWords
    <2>2. argv \notin UsageLines[argv[1]]
      <3> SUFFICES ASSUME argv \in UsageLines[argv[1]] PROVE FALSE
        OBVIOUS
      <3>1. PICK o \in UsageOptions(argv[1]) :
              \E p \in Orders : argv = Line(argv[1], o, p)
        BY <1>1, UsageLineIs
      <3>2. PICK p \in Orders : argv = Line(argv[1], o, p)
        BY <3>1
      <3>3. o \in OptionSet /\ Complete(argv[1], o)
        BY <1>1, UsageOptionsAre
      <3>4. PICK k \in 0..4 : StandsAt(argv, index, options, o, p, k)
        BY <1>1, <3>2 DEF CliInv, OnEveryLine
      <3>5. Holding(options, o, p, 4)
        <4>1. index > Len(argv)
          BY <1>1
        <4> QED
          BY <1>1, <3>3, <3>4, <4>1, LineEnds
      <3>6. Complete(argv[1], options)
        BY <1>1, <3>3, <3>5, HeldIsComplete
      <3> QED
        BY <1>4, <3>6
    <2> QED
      BY <1>1, <1>2, <2>1, <2>2, RefusalKeeps
  <1> QED
    BY <1>3, <1>4

\* Every step of the parser keeps the invariant.
LEMMA CliStep == CliInv /\ [CliNext]_clivars => CliInv'
  <1> SUFFICES ASSUME CliInv, [CliNext]_clivars PROVE CliInv'
    OBVIOUS
  <1>1. CASE UNCHANGED clivars
    BY <1>1 DEF clivars, CliInv, CliTypeOK, ReadIsLine, OnEveryLine,
                AcceptsUsage
  <1>2. CASE EndOfWords
    BY <1>2, EndOfWordsKeeps
  <1>3. CASE JsonFlag \/ AckFlag \/ DeviceOption \/ OutputOption
             \/ UnknownOption
    <2>1. OptionRead \/ WordRefused
      BY <1>3, StepsAre DEF CliInv
    <2> QED
      BY <2>1, OptionReadKeeps, WordRefusedKeeps
  <1> QED
    BY <1>1, <1>2, <1>3 DEF CliNext

\* The parser accepts exactly the usage lines and reads their options off
\* them, whatever the words are and however many.
THEOREM AcceptsUsageInvariant == CliSpec => []AcceptsUsage
  <1>1. CliInit => CliInv
    BY CliInitInv
  <1>2. CliInv /\ [CliNext]_clivars => CliInv'
    BY CliStep
  <1>3. CliInv => AcceptsUsage
    BY DEF CliInv
  <1> QED
    BY <1>1, <1>2, <1>3, PTL DEF CliSpec
=============================================================================
