--------------------------- MODULE NameConverter ----------------------------
(***************************************************************************)
(* NameConverter and the nc_* functions (src/nt_name_conv.h, .cpp): a      *)
(* table of the drives and their devices, read from the system by load()   *)
(* and consulted by lookups, in an object reached through Singleton.       *)
(*                                                                         *)
(* The owner follows the rule of nt_name_conv.h: it calls nc_initialize    *)
(* before anybody calls another nc_ function and nc_finalize when nobody   *)
(* will any more.  In between, any number of client threads call.          *)
(*                                                                         *)
(* A device \Device\head\tail\ is its first component and the list of     *)
(* those that follow: none of a volume, \Device\HarddiskVolume12\, whose   *)
(* head is the sequence of its digits <<1, 2>>; those of a share after its *)
(* redirector, \Device\LanmanRedirector\;X:1\server\share\, whose head is *)
(* a number that is no digit.  A name handed to a lookup has the rest of a *)
(* path in its tail too, and may end with a backslash or not.              *)
(*                                                                         *)
(* load() holds _lock from its first to its last line and every lookup     *)
(* holds it while it reads the lists, so each is one step; between the two *)
(* a lookup holds nothing.  The environment strings of load_env_values do  *)
(* not change while the process runs and are left out.                     *)
(***************************************************************************)
EXTENDS Singleton, SequencesExt

CONSTANTS Owner,      \* the thread that initializes and finalizes
          Letter,     \* drive letters
          Systems,    \* the drive tables the system may have: sequences of
                      \* [letter, head, tail, type] in the order of the letters
          Name,       \* the names handed to lookups: [head, tail, slash]
          Mup,        \* the head of the default network provider
          Provider,   \* the heads of the network providers, Mup included
          MaxObjects  \* bound of the model: how often the owner initializes

\* Drive letters are distinct from what the lookups say when there is none.
ASSUME NameConverterAssumption ==
  /\ Owner \in Thread /\ IsFiniteSet(Thread) /\ MaxObjects \in Nat
  /\ "none" \notin Letter
  /\ Systems \subseteq Seq([letter : Letter, head : Seq(Nat), tail : Seq(Nat),
                            type : {"fixed", "removable", "remote"}])
  /\ Name \subseteq [head : Seq(Nat), tail : Seq(Nat), slash : BOOLEAN]
  /\ Mup \in Provider

VARIABLES drives,       \* the system's drives
          _loaded,      \* of the object
          _dos_devices, \* of the object: a drive table or the front of one
          _mup_devices, \* of the object: the providers in its list
          cut,          \* a load() of the loaded table failed, and none has
                        \* succeeded since
          open,         \* nc_initialize has returned, nc_finalize is not called
          call          \* the function each thread is in

object == <<_loaded, _dos_devices, _mup_devices, cut>>
vars == <<singleton, pc, ptr, drives, object, open, call>>

\* The lookups with their arguments.  They change nothing, so a thread in any
\* of them is at the same place, and Answer says what each would return there.
Lookups == [op : {"letter", "removable", "canon", "network"}, name : Name]
             \union [op : {"device", "ntpath"}, letter : Letter]

\* What a lookup finds when it returns false.
NotFound == <<>>
-----------------------------------------------------------------------------
(* The lookups, on the list of devices d *)

NoDrive == [letter |-> "none", head |-> <<>>, tail |-> <<>>, type |-> "none"]

\* The first of the devices at the positions of hits, as the loops find it.
FirstOf(d, hits) == IF hits = {} THEN NoDrive
                    ELSE d[CHOOSE i \in hits : \A j \in hits : i <= j]

\* What a lookup returns for the drive it has found.
Found(drive, result) == IF drive = NoDrive THEN NotFound ELSE result

\* The name goes on after its head: the loops meet three backslashes.
ThirdBackslash(name) == name.slash \/ name.tail # <<>>

\* Mutant: without a third backslash any prefix matches.
PrefixMatches(name, drive) ==
  IF ThirdBackslash(name) THEN name.head = drive.head ELSE IsPrefix(name.head, drive.head)

\* A name is compared up to its third backslash.  One with two is compared as a
\* prefix, and the character after the next one of the device must be no backslash:
\* it is one when exactly one digit is left over.
NameMatches(name, drive) ==
  IF ThirdBackslash(name)
  THEN name.head = drive.head
  ELSE IsPrefix(name.head, drive.head) /\ Len(drive.head) # Len(name.head) + 1

get_drive_letter_by_device_name(d, name) ==
  LET x == FirstOf(d, {i \in DOMAIN d : NameMatches(name, d[i])})
  IN  Found(x, <<"letter", x.letter>>)

DriveOf(d, letter) == FirstOf(d, {i \in DOMAIN d : d[i].letter = letter})

get_device_name_by_drive_letter(d, letter) ==
  LET x == DriveOf(d, letter) IN Found(x, <<"device", x.head, x.tail>>)

\* Looks at the drive letter of the path only and appends the rest.
get_nt_path_by_dos_path(d, letter) ==
  LET x == DriveOf(d, letter) IN Found(x, <<"path", x.head, x.tail>>)

\* The comparison includes the third backslash or, in a name with two, its end, which
\* never equals a character of a device.
is_removable_drive(d, name) ==
  LET x == FirstOf(d, {i \in DOMAIN d : ThirdBackslash(name) /\ d[i].head = name.head})
  IN  IF x.type = "removable" THEN <<"removable", x.letter>> ELSE NotFound

\* The name begins with the whole device, the backslash at its end included, which is
\* appended to a name with two.
BeginsWith(name, drive) ==
  /\ name.head = drive.head /\ IsPrefix(drive.tail, name.tail)
  /\ name.tail = drive.tail => name.slash \/ name.tail = <<>>

is_network_path(m, name) ==
  IF \E p \in m : IsPrefix(p, name.head) THEN <<"network", "mup">> ELSE NotFound

\* get_canon_name of a name in \Device, which is resolve_device_prefix: the share of a
\* remote drive takes the place of its letter, and what is on no drive may be of a
\* network provider.
get_canon_name(d, m, name) ==
  LET x == FirstOf(d, {i \in DOMAIN d : BeginsWith(name, d[i])})
  IN  IF x = NoDrive THEN is_network_path(m, name)
      ELSE <<IF x.type = "remote" THEN "share" ELSE "letter", x.letter>>

Answer(c) ==
  CASE c.op = "letter"    -> get_drive_letter_by_device_name(_dos_devices, c.name)
    [] c.op = "device"    -> get_device_name_by_drive_letter(_dos_devices, c.letter)
    [] c.op = "ntpath"    -> get_nt_path_by_dos_path(_dos_devices, c.letter)
    [] c.op = "removable" -> is_removable_drive(_dos_devices, c.name)
    [] c.op = "canon"     -> get_canon_name(_dos_devices, _mup_devices, c.name)
    [] c.op = "network"   -> is_network_path(_mup_devices, c.name)
-----------------------------------------------------------------------------
(* load(force_reload), for a thread whose pointer is the object *)

AlreadyLoaded(force) == _loaded /\ ~force /\ UNCHANGED object

\* A provider whose key cannot be read is left out of the list.
ReadProviders == \E S \in SUBSET Provider : _mup_devices' = {Mup} \union S

LoadSucceeds(force) == /\ ~_loaded \/ force
                       /\ _dos_devices' = drives
                       /\ ReadProviders
                       /\ _loaded' = TRUE
                       /\ cut' = FALSE

\* The drives cannot be listed, or query_dos_device fails for one of them: the
\* old list is gone and the new one ends before that drive.
DriveListFails == /\ \E n \in 0..(Len(drives) - 1) : _dos_devices' = SubSeq(drives, 1, n)
                  /\ UNCHANGED _mup_devices

\* The order of the network providers cannot be read: their list is cleared.
ProviderListFails == /\ _dos_devices' = drives
                     /\ _mup_devices' = {}

\* Mutant: a load that failed counts as loaded.
LoadedAnyway(force) == /\ ~_loaded \/ force
                       /\ DriveListFails \/ ProviderListFails
                       /\ _loaded' = TRUE
                       /\ cut' = _loaded

\* _loaded stays as it is: FALSE at a first load, TRUE at a forced one.
LoadFails(force) == /\ ~_loaded \/ force
                    /\ DriveListFails \/ ProviderListFails
                    /\ cut' = _loaded
                    /\ UNCHANGED _loaded
-----------------------------------------------------------------------------
\* NameConverter()
Construct == /\ _loaded' = FALSE /\ cut' = FALSE
             /\ _dos_devices' = <<>> /\ _mup_devices' = {}

Init == /\ SingletonInit
        /\ pc = [t \in Thread |-> "idle"]
        /\ ptr = [t \in Thread |-> Null]
        /\ drives \in Systems
        /\ _loaded = FALSE /\ cut = FALSE
        /\ _dos_devices = <<>> /\ _mup_devices = {}
        /\ open = FALSE
        /\ call = [t \in Thread |-> "none"]

\* A drive is mounted or unmounted, a network drive is connected ...
SystemChanges == /\ drives' \in Systems \ {drives}
                 /\ UNCHANGED <<singleton, pc, ptr, object, open, call>>

Begin(t, c, at) == /\ Goto(t, "idle", at)
                   /\ call' = [call EXCEPT ![t] = c]
                   /\ UNCHANGED <<singleton, ptr, drives, object>>

nc_initialize(t) == /\ t = Owner
                    /\ ~open /\ objects < MaxObjects
                    /\ Begin(t, "initialize", "get")
                    /\ UNCHANGED open

\* Every other nc_ function takes the instance, calls a method and releases it.
nc_call(t) == /\ open
              /\ \E c \in {"lookup", "reload"} : Begin(t, c, "get")
              /\ UNCHANGED open

nc_finalize(t) == /\ t = Owner
                  /\ open /\ \A u \in Thread : pc[u] = "idle"
                  /\ Begin(t, "finalize", "release")
                  /\ open' = FALSE

\* GetInstancePointer and ReleaseInstance; the constructor runs with new T().
SingletonStep(t) == /\ GetInstancePointer(t) \/ ReleaseInstance(t)
                    /\ IF objects' = objects THEN UNCHANGED object ELSE Construct
                    /\ UNCHANGED <<drives, open, call>>

\* nc_initialize keeps the reference it has taken, whatever load() returned.
Load(t) == /\ \/ /\ call[t] = "initialize"
                 /\ AlreadyLoaded(FALSE) \/ LoadSucceeds(FALSE) \/ LoadFails(FALSE)
                 /\ Goto(t, "got", "idle")
                 /\ open' = TRUE
              \/ /\ call[t] = "reload"
                 /\ LoadSucceeds(TRUE) \/ LoadFails(TRUE)
                 /\ Goto(t, "got", "release")
                 /\ UNCHANGED open
              \/ /\ call[t] = "lookup"
                 /\ \/ AlreadyLoaded(FALSE) /\ Goto(t, "got", "lookup")
                    \/ LoadSucceeds(FALSE) /\ Goto(t, "got", "lookup")
                    \/ LoadFails(FALSE) /\ Goto(t, "got", "release")
                 /\ UNCHANGED open
           /\ UNCHANGED <<singleton, ptr, drives, call>>

\* The loop over the list, under _lock: it returns Answer of its arguments.
Lookup(t) == /\ Goto(t, "lookup", "release")
             /\ UNCHANGED <<singleton, ptr, drives, object, open, call>>

Return(t) == /\ Goto(t, "released", "idle")
             /\ ptr' = [ptr EXCEPT ![t] = Null]
             /\ call' = [call EXCEPT ![t] = "none"]
             /\ UNCHANGED <<singleton, drives, object, open>>

Next == \/ SystemChanges
        \/ \E t \in Thread : \/ nc_initialize(t) \/ nc_call(t) \/ nc_finalize(t)
                             \/ SingletonStep(t) \/ Load(t) \/ Lookup(t) \/ Return(t)

Spec == Init /\ [][Next]_vars
-----------------------------------------------------------------------------
TypeOK == /\ mInstance \in 1..MaxObjects \union {Null}
          /\ mRefCount \in Nat
          /\ objects \in 0..MaxObjects
          /\ heap \subseteq 1..objects
          /\ pc \in [Thread -> SingletonPC \union {"idle", "lookup"}]
          /\ ptr \in [Thread -> 1..MaxObjects \union {Null}]
          /\ drives \in Systems
          /\ _loaded \in BOOLEAN /\ cut \in BOOLEAN /\ open \in BOOLEAN
          /\ \E s \in Systems : IsPrefix(_dos_devices, s)
          /\ _mup_devices \subseteq Provider
          /\ call \in [Thread -> {"none", "initialize", "lookup", "reload", "finalize"}]

\* While the owner keeps to the rule, the counter is exactly the number of
\* threads inside nc_ functions plus the owner's own reference, and there is
\* one object if it is not zero: no call leaks a reference or drops one twice.
RefCountExact ==
  /\ mRefCount = Cardinality(Holders) + (IF open THEN 1 ELSE 0)
  /\ mRefCount # 0 => heap = {mInstance}

\* No thread uses an object that another one has deleted.
NoUseAfterFree == \A t \in Thread : pc[t] \in {"got", "lookup"} => ptr[t] \in heap

\* After nc_finalize, and after a failed nc_initialize too, nothing is left of
\* the singleton and the next nc_initialize starts from scratch.
NothingLeft == ~open /\ (\A t \in Thread : pc[t] = "idle")
                 => heap = {} /\ mInstance = Null /\ mRefCount = 0

\* The one object is shared by counting: while the owner keeps to the rule, however
\* the calls of the clients interleave, fail or reload, no reference is lost or
\* dropped twice, nobody uses a deleted object, and nothing is left after the last.
ObjectIsShared == TypeOK /\ RefCountExact /\ NoUseAfterFree /\ NothingLeft

\* A lookup that has got past load(false) reads the whole table of a system, although
\* it has not held the lock since and others have reloaded, failed, finalized and
\* initialized: a load that fails is not passed over, and one that succeeds mends what
\* an earlier one has cut.  The one exception is a forced reload of the loaded table
\* that fails: until the next that succeeds, lookups answer from what it has left.
WholeTable ==
  /\ \A t \in Thread : pc[t] = "lookup" => _loaded
  /\ _loaded /\ ~cut => _dos_devices \in Systems /\ Mup \in _mup_devices

\* What a name denotes in the table d: the drives whose device it begins with.
Denoted(d, name) == {i \in DOMAIN d : d[i].head = name.head /\ IsPrefix(d[i].tail, name.tail)}

RightFor(found, op, drive) ==
  /\ found[2] = drive.letter
  /\ found[1] = "removable" => drive.type = "removable"
  /\ found[1] = "share" <=> op = "canon" /\ drive.type = "remote"

\* A drive with two digits more, or more, and one with another share of the same
\* redirector, is taken for what the name denotes.
TwoDigitsMore(name, drive) == /\ ~ThirdBackslash(name)
                              /\ IsPrefix(name.head, drive.head)
                              /\ Len(drive.head) > Len(name.head) + 1
SameRedirector(name, drive) == drive.head = name.head

Mistaken(c, drive) == \/ c.op = "letter" /\ TwoDigitsMore(c.name, drive)
                      \/ c.op # "canon" /\ SameRedirector(c.name, drive)

\* What is denoted and not found: a drive that is not removable or is mistaken for
\* such a one, any drive that is_removable_drive is asked about without a backslash,
\* and a share that get_canon_name is asked about without the one at its end.
Overlooked(d, c, drive) ==
  \/ /\ c.op = "removable"
     /\ \/ ~ThirdBackslash(c.name)
        \/ \E j \in DOMAIN d : d[j].head = c.name.head /\ d[j].type # "removable"
  \/ /\ c.op = "canon"
     /\ c.name.tail = drive.tail /\ drive.tail # <<>> /\ ~c.name.slash

\* Whatever reloads, failures and changes of the system a lookup comes after, its
\* answer is right for the table it reads: a letter, a path and a type are those of
\* a drive the name denotes, and a drive that is denoted is found.  The exceptions are
\* exactly Mistaken and Overlooked: a volume is never taken for one with one digit
\* more, nor get_canon_name in any drive.
AnswersAreExact ==
  \A c \in Lookups :
    c.op \in {"letter", "canon", "removable"} =>
      LET found == Answer(c)
          d == _dos_devices
          on == Denoted(d, c.name)
      IN  IF found = NotFound \/ found[1] = "network"
          THEN \A i \in on : Overlooked(d, c, d[i])
          ELSE \E i \in DOMAIN d : /\ i \in on \/ Mistaken(c, d[i])
                                   /\ RightFor(found, c.op, d[i])

\* \Device\HarddiskVolume4 is not taken for HarddiskVolume44 or any other that its
\* name continues, as the comment of get_drive_letter_by_device_name says.
VolumesAreToldApart ==
  \A c \in Lookups :
    c.op = "letter" /\ ~ThirdBackslash(c.name) /\ Answer(c) # NotFound =>
      \E i \in DOMAIN _dos_devices : /\ _dos_devices[i].head = c.name.head
                                     /\ _dos_devices[i].letter = Answer(c)[2]
=============================================================================
