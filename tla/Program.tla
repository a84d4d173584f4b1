------------------------------ MODULE Program ------------------------------
(***************************************************************************)
(* main() from the parsed command line to the seized interface: discovery  *)
(* (src/discovery_macos.c), selection, validation (src/device.c) and the   *)
(* second look-up by BSD name when the transport is created                *)
(* (src/usb_cbi_macos.c), while media come and go and are mounted.  Each   *)
(* call into I/O Kit or Disk Arbitration is a step of its own.             *)
(***************************************************************************)
EXTENDS Naturals, FiniteSets, Sequences

CONSTANTS
  Names,        \* BSD names of whole media
  SliceNames,   \* BSD names of partitions
  DiskOf,       \* the whole medium's name in the name of a partition
  Media,        \* the media objects that may appear, as records (IsMedium)
  Prefixes,     \* what the user writes before a BSD name, in parts
  MaxDevices,   \* M65_MAX_DEVICES
  MaxEvents     \* bound: changes of the registry or of mounts in a run

AllNames == Names \cup SliceNames
NONE == "none"

\* A media object: the drive it belongs to, what its ancestry in the registry
\* says (USB IDs of the TEAC drive, a product name that fits, an 08/04/00
\* interface with the IOUSBLib plug-in) and its Disk Arbitration description.
IsMedium(m) ==
  /\ m.drive \in Nat \ {0}
  /\ \A f \in {m.teac, m.named, m.ufi, m.external, m.removable, m.whole,
               m.block512} : f \in BOOLEAN

NoMedium ==
  [drive |-> 0, teac |-> FALSE, named |-> FALSE, ufi |-> FALSE,
   external |-> FALSE, removable |-> FALSE, whole |-> FALSE,
   block512 |-> FALSE]

\* The media of one drive have the same ancestry in the registry.
ASSUME ProgramAssumption ==
  /\ Names \cap SliceNames = {} /\ NONE \notin AllNames
  /\ DiskOf \in [SliceNames -> Names]
  /\ \A m \in Media : IsMedium(m)
  /\ \A m, k \in Media : m.drive = k.drive => m.teac = k.teac /\ m.ufi = k.ufi
  /\ \A p \in Prefixes : p \in Seq(STRING)
  /\ MaxDevices \in Nat /\ MaxEvents \in Nat

VARIABLES
  attached,   \* the media object of each BSD name, or NoMedium
  mounted,    \* the names with a volume path
  events,     \* changes so far
  pc,         \* the step of main
  request,    \* the value of --device as prefix parts and a name
  left,       \* the iterator: media objects not visited yet
  device,     \* the M65DeviceInfo being filled
  list,       \* M65DeviceList
  interface,  \* the drive whose USB interface object is retained, or 0
  seized,     \* the drive whose interface is open, or 0
  exit        \* the exit code, once pc is "done"

world == <<attached, mounted, events>>
found == <<request, left, device, list>>
progvars == <<world, pc, found, interface, seized, exit>>

Attached == {n \in AllNames : attached[n] # NoMedium}

\* Names denote different media, and a drive has one whole medium; a partition
\* comes with its whole medium and is named after it.
Consistent(a) ==
  /\ \A n, k \in AllNames : a[n] = a[k] /\ a[n] # NoMedium => n = k
  /\ \A n, k \in AllNames :
       a[n].whole /\ a[k].whole /\ a[n].drive = a[k].drive => n = k
  /\ \A n \in AllNames : a[n] # NoMedium =>
       /\ a[n].whole = (n \in Names)
       /\ n \in SliceNames => /\ a[DiskOf[n]] # NoMedium
                              /\ a[DiskOf[n]].drive = a[n].drive

\* list has no --device.
NoRequest == [prefix |-> << >>, name |-> NONE]
Requests == [prefix : Prefixes, name : AllNames]

NoDevice ==
  [name |-> NONE, medium |-> NoMedium, known |-> FALSE, external |-> FALSE,
   removable |-> FALSE, whole |-> FALSE, mounted |-> FALSE,
   block512 |-> FALSE]

ProgramInit ==
  /\ attached \in {a \in [AllNames -> Media \cup {NoMedium}] : Consistent(a)}
  /\ mounted \in SUBSET Attached
  /\ events = 0
  /\ pc = "start"
  /\ request \in Requests \cup {NoRequest}
  /\ left = {} /\ device = NoDevice /\ list = << >>
  /\ interface = 0 /\ seized = 0 /\ exit = 0
-----------------------------------------------------------------------------
(* The world.  Once the interface is seized the kernel driver is gone and  *)
(* what happens next is the business of the transport.                     *)

Event ==
  /\ pc \notin {"seized", "done"}
  /\ events < MaxEvents
  /\ events' = events + 1
  /\ UNCHANGED <<pc, found, interface, seized, exit>>

\* A medium appears under a free name.
Plug(n, m) ==
  /\ Event
  /\ attached[n] = NoMedium
  /\ attached' = [attached EXCEPT ![n] = m]
  /\ Consistent(attached')
  /\ UNCHANGED mounted

\* A drive is unplugged, with everything on it.
Unplug(d) ==
  LET gone == {n \in Attached : attached[n].drive = d}
  IN  /\ Event
      /\ gone # {}
      /\ attached' = [n \in AllNames |->
                        IF n \in gone THEN NoMedium ELSE attached[n]]
      /\ mounted' = mounted \ gone

Mount(n) ==
  /\ Event
  /\ n \in Attached \ mounted
  /\ mounted' = mounted \cup {n}
  /\ UNCHANGED attached

Unmount(n) ==
  /\ Event
  /\ n \in mounted
  /\ mounted' = mounted \ {n}
  /\ UNCHANGED attached
-----------------------------------------------------------------------------
(* Discovery.                                                              *)

Exit(code) ==
  /\ pc' = "done"
  /\ exit' = code
  /\ UNCHANGED <<world, found, interface, seized>>

\* m65_cli_parse refuses the line.
UsageError == pc = "start" /\ Exit(64)

\* No Disk Arbitration session, no matching dictionary or no iterator.
DiscoveryFails == pc = "start" /\ Exit(4)

\* IOServiceGetMatchingServices: the media objects of this moment.
Enumerate ==
  /\ pc = "start"
  /\ left' = {[name |-> n, medium |-> attached[n]] : n \in Attached}
  /\ pc' = "next"
  /\ UNCHANGED <<world, request, device, list, interface, seized, exit>>

\* identity_matches: the IDs and one of the product names.
identity_matches(m) == m.teac /\ m.named

\* populate_identity of the next object.  The ancestry of an object that has
\* been unplugged meanwhile may no longer be found.
Identify(e) ==
  LET present == attached[e.name] = e.medium
  IN  /\ pc = "next"
      /\ e \in left
      /\ left' = left \ {e}
      /\ \E known \in {identity_matches(e.medium)}
                        \cup (IF present THEN {} ELSE {FALSE}) :
           device' = [NoDevice EXCEPT !.name = e.name, !.medium = e.medium,
                                      !.known = known]
      /\ pc' = "describe"
      /\ UNCHANGED <<world, request, list, interface, seized, exit>>

\* Mutant: a missing description counts as an acceptable one.
MutDescribedByDefault(d) ==
  [d EXCEPT !.external = TRUE, !.removable = TRUE, !.whole = TRUE,
            !.block512 = TRUE]

\* The description could not be had: the fields keep memset's zeroes.
Undescribed(d) == d

\* fill_da_description goes by name: it describes what has that name now.
Described(d, n) ==
  LET m == attached[n]
  IN  [d EXCEPT !.external = m.external, !.removable = m.removable,
                !.whole = m.whole, !.block512 = m.block512,
                !.mounted = n \in mounted]

HasRoom == Len(list) < MaxDevices

\* fill_da_description and the end of the iteration.
Describe ==
  LET n == device.name
  IN  /\ pc = "describe"
      /\ \E d \in {Undescribed(device)}
                    \cup (IF n \in Attached THEN {Described(device, n)}
                          ELSE {}) :
           list' = IF d.known /\ HasRoom THEN Append(list, d) ELSE list
      /\ device' = NoDevice
      /\ pc' = "next"
      /\ UNCHANGED <<world, request, left, interface, seized, exit>>

Discovered == pc = "next" /\ left = {}

ListDevices ==
  /\ Discovered
  /\ request = NoRequest
  /\ Exit(IF list = << >> THEN 2 ELSE 0)
-----------------------------------------------------------------------------
(* Selection, validation and the transport.                                *)

StripDev(parts) ==
  IF parts # << >> /\ Head(parts) = "/dev/" THEN Tail(parts) ELSE parts

\* normalize_bsd_name: one "/dev/", then the r of "rdisk".
normalize_bsd_name(r) ==
  LET p == StripDev(r.prefix)
  IN  [r EXCEPT !.prefix = IF p = <<"r">> THEN << >> ELSE p]

Matches(d) ==
  d.known /\ normalize_bsd_name(request) = [prefix |-> << >>, name |-> d.name]

\* m65_select_device: exactly one match.
Selected ==
  LET hits == {i \in DOMAIN list : Matches(list[i])}
  IN  IF Cardinality(hits) = 1 THEN list[CHOOSE i \in hits : TRUE]
      ELSE NoDevice

\* m65_validate_device
validate_device(d) ==
  /\ d.external
  /\ ~d.mounted
  /\ d.removable
  /\ d.whole
  /\ d.block512
  /\ d.known

RefuseDevice ==
  /\ Discovered
  /\ request # NoRequest
  /\ Selected = NoDevice \/ ~validate_device(Selected)
  /\ Exit(2)

AcceptDevice ==
  /\ Discovered
  /\ request # NoRequest
  /\ Selected # NoDevice /\ validate_device(Selected)
  /\ device' = Selected
  /\ pc' = "create"
  /\ UNCHANGED <<world, request, left, list, interface, seized, exit>>

\* Mutant: the first USB interface above the medium will do.
MutAnyInterface(m) == m.teac

\* is_known_ufi_cbi_interface, for the interface above a medium.
is_known_ufi_cbi_interface(m) == m.teac /\ m.ufi

\* copy_usb_interface_for_bsd_name: by the name, as it is now.
LookUp ==
  /\ pc = "create"
  /\ device.name \in Attached
  /\ is_known_ufi_cbi_interface(attached[device.name])
  /\ interface' = attached[device.name].drive
  /\ pc' = "seize"
  /\ UNCHANGED <<world, found, seized, exit>>

\* No such medium or no such interface above it: M65_TRANSPORT_NO_DEVICE.
NoInterface ==
  /\ pc = "create"
  /\ device.name \notin Attached
     \/ ~is_known_ufi_cbi_interface(attached[device.name])
  /\ Exit(2)

\* USBInterfaceOpenSeize of the interface retained, if its drive is there.
Seize ==
  /\ pc = "seize"
  /\ \E n \in Attached : attached[n].drive = interface
  /\ seized' = interface
  /\ pc' = "seized"
  /\ UNCHANGED <<world, found, interface, exit>>

\* The plug-in cannot be created, or the interface is refused or gone.
SeizeFails ==
  /\ pc = "seize"
  /\ \E code \in {2, 3, 4} : Exit(code)

\* The workflow runs and the transport is destroyed, which closes it.
Workflow ==
  /\ pc = "seized"
  /\ \E code \in {0, 2, 3, 4, 5, 6} :
       /\ exit' = code
       /\ seized' = 0
  /\ pc' = "done"
  /\ UNCHANGED <<world, found, interface>>

ProgramNext ==
  \/ \E n \in AllNames, m \in Media : Plug(n, m)
  \/ \E m \in Media : Unplug(m.drive)
  \/ \E n \in AllNames : Mount(n) \/ Unmount(n)
  \/ UsageError \/ DiscoveryFails \/ Enumerate
  \/ \E e \in left : Identify(e)
  \/ Describe \/ ListDevices \/ RefuseDevice \/ AcceptDevice
  \/ LookUp \/ NoInterface \/ Seize \/ SeizeFails \/ Workflow

ProgramSpec == ProgramInit /\ [][ProgramNext]_progvars
-----------------------------------------------------------------------------
(* Properties.                                                             *)

\* The medium of a drive that carries the whole disk.
WholeNameOf(d) ==
  {n \in Attached : attached[n].drive = d /\ attached[n].whole}

\* The ways to write the path of a medium.
Spellings == {<< >>, <<"/dev/">>, <<"r">>, <<"/dev/", "r">>}

\* A seized interface belongs to a TEAC UFI/CBI drive, whatever took over
\* the BSD name since discovery, and the run got there through an entry of
\* the list, within its 16 places, that the user named and that was described
\* as external, removable, whole, unmounted and of 512-byte blocks.
SeizedWasAccepted ==
  /\ Len(list) <= MaxDevices
  /\ seized # 0 =>
       /\ \A m \in Media : m.drive = seized => m.teac /\ m.ufi
       /\ \E i \in DOMAIN list :
            /\ list[i] = device
            /\ device.name = request.name
            /\ request.prefix \in Spellings
            /\ device.external /\ device.removable /\ device.whole
            /\ device.block512 /\ ~device.mounted
            /\ device.medium.teac /\ device.medium.named

\* The drive that is seized is the one the accepted entry was identified on
\* (docs/architecture.md: "discover the BSD medium and verify it with Disk
\* Arbitration", then "retain its matching USB UFI/CBI interface").  The code
\* retains nothing but the name and looks it up again.
SeizedIsVerified == seized # 0 => seized = device.medium.drive

\* Nothing on a seized drive is mounted.
MountedNeverSeized ==
  seized # 0 => \A n \in mounted : attached[n].drive # seized

\* A run that nothing disturbs (no medium plugged, unplugged or mounted
\* behind the program's back) does what the user asked for.  It seizes the
\* whole medium that was named, acceptable and not itself mounted; and it
\* refuses with code 2 only where the name is not that of an acceptable,
\* unmounted drive, its description could not be had, its interface is not
\* UFI/CBI, or the list was full.  The last is a limit the user is not told
\* of: discovery_macos.c:239 drops the entry without a word.
QuietRunIsRight ==
  events = 0 =>
    /\ seized # 0 => /\ SeizedIsVerified
                     /\ WholeNameOf(seized) = {request.name}
                     /\ request.name \notin mounted
    /\ pc = "done" /\ exit = 2 /\ request # NoRequest =>
         LET m == attached[request.name]
         IN  \/ request.prefix \notin Spellings
             \/ ~(m.teac /\ m.named /\ m.external /\ m.removable /\ m.whole
                    /\ m.block512 /\ m.ufi)
             \/ request.name \in mounted
             \/ \E i \in DOMAIN list : /\ list[i].name = request.name
                                       /\ ~list[i].external
             \/ Len(list) = MaxDevices
             \/ interface = m.drive
=============================================================================
