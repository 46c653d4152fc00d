# OnvifSoapLib in TLA+

OnvifSoapLib is a C client library for ONVIF cameras: GObject classes over
gSOAP. This directory holds TLA+ models of the parts of it that have state and
concurrency, the TLC configurations that check them on small instances, and
TLAPS proofs of their main properties for every value of the constants. Paths
below are relative to the repository; line numbers are of the modelled commit.

## 1. Inventory

### Components, state, operations

| Component | Source | State | Operations |
|---|---|---|---|
| OnvifDevice | `src/onvif_device.c` | `auth_lock`, `media_lock`, `prop_lock`; `authenticated`; `time_offset`, `datetime`; four service pointers; credentials; the parsed URL, which never changes | `authenticate` (with `createServices`), `is_authenticated`, `set_credentials`, getters with and without a lock, `getSystemDateTime`, `dispose` |
| Base service: SOAP call | `src/onvif_base_service_local.h`, `src/onvif_base_service.c` | `service_lock`, `prop_lock`, `endpoint`, `da_info` (the saved HTTP digest) | the macros `ONVIF_INVOKE_SOAP_CALL_*`, `soap_new`, `http_challenge`, `set_wsse_data`, `set_endpoint`, `get_endpoint` |
| Media service: profile cache | `src/media/onvif_media_service.c` | `profile_lock`, `profiles` (reference-counted list) | `get_profiles`, `get_profile_token`, `load_profiles_cache`, `dispose` |
| Media service: snapshot | same file, 163-414 | locals of one download, `da_info` of its own | `getSnapshot`, `get_http_body`, `send_http_get` |
| Media1, Media2, Device, DeviceIO services | `src/media/media1`, `media2`, `src/devicemgmt/onvif_device_service.c`, `src/deviceio` | none of their own | one SOAP call per operation, some after `get_profile_token` |
| OnvifCredentials | `src/onvif_credentials.c` | `user`, `pass`, `prop_lock` | four accessors, a critical section each |
| Response objects | `src/SoapObject.c`, `src/devicemgmt/*.c`, `src/media/*.c` | a `SoapFault` and copies of reply fields | a `construct` hook, getters, `dispose` |
| Service and capability tables | `src/devicemgmt/onvif_device_services.c`, `onvif_device_capabilities.c` | a pointer per service, with its address | construction from the reply, getters, `reset`; `createServices` makes the services from them |
| Interface and NTP tables | `src/devicemgmt/onvif_device_interface.c`, `onvif_device_ntp.c` | arrays of addresses | construction, getters by index, `dispose` |
| Camera clock | `src/devicemgmt/onvif_device_datetime.c`, and lines of the two bases above | `datetime`, `time_offset` | conversion of the date, the offset, `get_offset_time`, the tokens and timestamps of `set_wsse_data` |
| Scopes | `src/devicemgmt/onvif_device_scopes.c` | the list of scopes | construction, `extract_scope`, `urldecode` |
| Discoverer | `src/discovery/onvif_discoverer.c` | `state`, `serv` (a pointer into `start`'s stack frame), no lock | `start`, `stop`, the probe-match callback |
| Probe matches | `src/discovery/onvif_probematches.c` | growing arrays | insertions, `extract_scope`, `urldecode2` |
| Examples | `example/*.c` | the client's objects | the order of calls of a client, what it looks at and what it drops |

External, known only by their use: gSOAP (with its wsse, wsdd and http_da
plugins), GLib/GObject, OpenSSL, and CUtils (`P_MUTEX_*`, `ParsedURL`). There is
no automatic test in the repository; the examples are the only callers.

### How they interact

- A client shares one `OnvifDevice` among threads. The device owns its services;
  a service keeps a bare pointer to the device.
- `authenticate` calls `getSystemDateAndTime`, `getServices`, `getCapabilities`
  and `getStreamUri`, each one SOAP call of a service, while it holds
  `auth_lock` (and, inside `createServices`, `media_lock`).
- A SOAP call holds the service's `service_lock` to the end. It reads the device's
  credentials (each field under the credentials' own lock), its time offset (no
  lock) and, in a fallback, its host and port (under the device's `prop_lock`).
- A media operation takes `profile_lock`, fetches the profiles with a SOAP call when
  the cache is empty or a fault, releases the lock, and then sends a token that
  still points into the cached list.

The order of the mutexes, read off the code: `auth_lock`, `media_lock`,
`service_lock`, then one of the device's `prop_lock` and the service's `prop_lock`;
`profile_lock` before `service_lock`; the device's `prop_lock` before the
credentials' lock. Nothing in the code states it.

### What is hard, and what correct means

- *Device*: threads authenticate at the same time, fail, retry, and meanwhile use
  bare service pointers. Correct: `authenticated` and having a media service are one
  thing; failure undoes what was created, without a leak; what a client was
  entitled to use stays valid; no call blocks another for ever.
- *SOAP call*: the device answers each attempt as it likes. Correct: the call ends
  within a bound, gives up only when every address is unreachable, and remembers
  only addresses that work.
- *Profile cache*: a list is replaced while others hold it. Correct: exact reference
  counts, one fetch, tokens that outlive the lock.
- *Discoverer*: a run and its `stop` race without a lock. Correct: a stop ends the
  run, and touches no dead stack frame.
- *Snapshot*: one pointer names one of three texts that the loop frees and rewrites
  under it. Correct: requests are bounded, a picture without a fault is whole, no text
  is read after its free or left behind.
- *Credentials*: two fields, each behind a lock of its own, read one after the other by
  calls that save what they made of them. Correct: each field is atomic, nothing sent
  is older than its call, and a stale digest locks nobody out.
- *Camera clock*: two clocks, a measurement that takes time, and a date that may be
  missing. Correct: tokens carry the camera's time, and a camera without a date gets in.
- *Response objects*: sequential, but with index and precedence traps, and ownership of
  every block spread over a dozen classes and their clients. Correct: what is read was
  written, what was allocated is freed, and a client sees each profile in its turn.
- *Tables and scopes*: what a camera repeats, leaves out or encodes oddly. Correct: the
  latest answer wins, and no part of an answer passes for the whole of it.
- *Probe matches*: handlers may keep what the discoverer drops. Correct: every device
  is told of once, and an object lives as long as it is used.

`PROJECT.json` lists the hazards one by one, at their lines, with the properties
that guard them.

## 2. Plan

In the order of importance.

1. `OnvifDevice` with `OnvifDeviceProofs`: the device. **Done.**
2. `MediaProfileCache` with `MediaProfileCacheProofs`: the cache. **Done.**
3. `SoapCall` with `SoapCallProofs`: one call. **Done.**
4. `Discoverer` with `DiscovererProofs`: starters, stoppers and callbacks over the
   unlocked `state` and `serv`. **Done.**
5. `Snapshot` with `SnapshotProofs`: `get_http_body` and its URL rewriting. **Done.**
6. `CredentialRegister`, `Credentials` with `CredentialsProofs`: what `OnvifCredentials`
   promises, and that its critical sections implement it, with the calls that read
   them. **Done.**
7. `CameraClock`, proved in `AnswerProofs`: the date, the offset, the tokens. **Done.**
8. `ClientSession` with `ClientSessionProofs`: a whole session of the test client, every
   response class with its blocks. **Done.**
9. `ServiceTables`, `NetworkTables`, `Scopes`, `ProbeMatches`: the objects made of
   replies, composed by `CameraReplies` and proved in `AnswerProofs`. **Done.**

Left for later: `Locks`, the device, two services and the cache composed over their
mutexes alone, with the order of section 1 as an invariant (each of these modules has
its own locks and shows that its own waits end); abstract specifications of a SOAP
call, of the cache as a lazy cell and of the device as an authentication register,
beside the one of the credentials.

Modules to be proved about use no `RECURSIVE` operator; parameters are constants
with named assumptions; one action per critical section or unlocked access.

## 3. The models

Comments in the modules give the lines of each action, and `PROJECT.json` maps each
definition to them. Each module also holds *mutated forms* (`StaleAlways`,
`ChallengeForever`, ...): wrong variants of the definition that follows, used to confirm
that each property can fail; no specification uses them.

### OnvifDevice

Variables are the fields of `OnvifDevicePrivate`, and per thread its place `pc` and
locals. An action is the code between two points where another thread can see the
difference: one side of a mutex, an unlocked read or write that another thread
reads, a SOAP call. So `createServices`' unlocked test and its test under the lock
are two actions, and so are `g_object_unref(priv->media1_service)` and the
assignment of `NULL` after it. Inside `authenticate` the second test of
`createServices` is never true, since `auth_lock` already excludes every other
caller; the model has it all the same.

A service object is `<<kind, n>>`, numbered by the run of `createServices` that made
it, so a leak (`live` but named by no pointer) and a dangling pointer (named but not
`live`) can be told apart. A SOAP call is one step with any `SoapFault`; a
`GetCapabilities` reply without Media or DeviceIO ends in `crashed`; which other
replies crash the constructors is in `ServiceTables`. `saw` and
`handle` record what a client was told and given. `Dispose` needs every call to have
returned: GObject calls it when the owner drops the last reference.

`getSystemDateTime` returns between lock and unlock (lines 115-117). Its callers are
the threads in `TimeReaders`, so the other properties can be checked on clients that
do not call it, and its effect on those that do.

Left out: the contents of dates and URLs, `is_valid` and `get_device_service` (they
read what never changes), and the device service object, made once.

### MediaProfileCache

A list is the number of the load that fetched it, with its fault and the indexes
whose profile has a token; `refs` is its reference count, 0 once freed. `Lock` is a
call up to the test of line 41; the unref of the old list (42), the fetch (43), the
reference for the caller with the unlock (95-96) and the re-read of `priv->profiles`
(97) are steps of their own. Using a freed list sets `undefined`, and nothing is
specified after that. `raced` records that a caller was returned another list than
the one it took a reference on. A token is the list it points into, or `Junk` when
`get_profile_token` leaves its out parameter unassigned.

### SoapCall

One caller stands for all threads on a service, because `service_lock` is held from
`MSTART` to `prv_exit`; `set_credentials` happens at any time. An address is a
host, a port and a path; the corrections put the device's own port, then host, then
both into `privendpt`, and an address that did not change is not asked again. The
network is a set `dead` of unreachable sites that is fixed during a call and
arbitrary between calls. Credentials are the number of `set_credentials` so far, so
`digest >= since` says that a digest is as new as the call. `soap_new` or
`http_challenge` failing on the WS-Security header ends in `crashed`: the code goes
on with a NULL or freed context.

### Discoverer

There is no lock, so each access to `priv->state` and `priv->serv` is an action, in
the order of the code. The context of a run is named by its thread; `stop` is a
routine with a return place, called by a stopper, by a `start` that finds another
run, or by the probe-match callback inside `soap_wsdd_listen`. Line 249 reads
`priv->serv` a second time, and a build may or may not load it again: both are
allowed. Closing NULL, a context that is not initialised, or one whose frame is gone
sets `undefined`, and nothing is specified after that. Closing a good one has no
effect but that `soap_wsdd_listen` returns, which it may do anyway. `hit`, `late` and
`shared` are history: what a run was doing when a stop took effect, the probes it
sent since, and whether two threads were ever in the discoverer together.

Left out: a `start` from inside the callback, reordering of one thread's stores by
the compiler or the processor, and races inside gSOAP.

### Snapshot

One download: the `GetSnapshotUri` answer, then the loop of `get_http_body` with one
action per GET, redirect and fallback. The variable `url` says *where the pointer
points* (the reply's text, the loop's own, or `soap->endpoint`), and `Url` reads the
text through it, so that freeing the text, or a redirect rewriting
`soap->endpoint`, changes what the next read finds. Each branch frees `new_endpoint`
before it uses `url`: when both are one text, `undefined` is set and nothing is
specified after that. `snap` tells a picture received whole from one whose transfer
broke; the second GET, with credentials, does not look at the error. `asked`, `moves`,
`challenged`, `jumped` and `path` are history.

### CredentialRegister and Credentials

`CredentialRegister` is the abstract specification of `OnvifCredentials`: a field is
set, or copied, in one step. `Credentials` has each getter and setter in two steps
under `prop_lock` (measure or reallocate, then copy; the buffer is `Junk` between
them) and `set_credentials` under the device's lock around both. The callers are
services, which save a digest between calls, and downloads, which do not; a camera
asks a caller for the WS-Security token or for the HTTP digest and takes one account.
`seen` is the values each field had during the current call, and `steady` that the
credentials were the account from its start on.

### CameraClock

`now` is `time(NULL)`, `camera` the camera's clock; both tick together and either may be
set. One caller: `authenticate` up to the offset, then one request standing for all.
A camera accepts a token of its own time, give or take `Window`, and if it is `strict`
also looks at the timestamp, to which the library does not add the offset. The date
of the answer is an UTC one, a local one only (then the client's time is taken), none
(a fault), or without the elements the schema requires (`crashed`). `measured` is history.

### ClientSession

`example/client-test.c` from `main` to its end, with one device of either media
version. An action is a call with the making of its answer's object, or what the
client does with it. `heap` is the set of blocks: every class has what its `construct`
copies of an entry (`...Copies`) and what its `dispose` frees (`...Frees`) as separate
operators, mapped to their own lines. A profile token is `<<list, place>>`, so that a
token of another profile, or of a list fetched earlier, is told apart, and
`get_profile_token`'s indeterminate out parameter is either seen as missing or sent
(`junk`). Calls are atomic here: their retries are in `SoapCall` and `Snapshot`, and
threads in `MediaProfileCache`. `heap` has no block that the library allocates for
itself: those of `createServices` are in `ServiceTables`, the snapshot's address in
`Snapshot`. A session ends in `crashed` when `createServices` crashes, or on interfaces
or capabilities that lack an element their `construct` reads unseen (`Malformed`);
interfaces with several addresses, which are undefined behaviour (`NetworkTables`), are
not followed.

### ServiceTables, NetworkTables, Scopes, ProbeMatches, composed by CameraReplies

- `ServiceTables`: `createServices` over the replies of `GetServices` (a sequence of
  namespaces, the place of an entry standing for its address) and `GetCapabilities`
  (which parts there are), through authentications that fail and are retried. Blocks
  are `<<attempt, place>>` and `<<attempt, part>>`. gSOAP is not made strict
  (`onvif_base_service.c:290`), so either reply may lack an element the schema requires:
  an entry of `GetServices` may be `hollow`, a part of `GetCapabilities` `bare`. Where a
  constructor tests for it (Media, Device) the part is not made, where it does not
  (a service, a DeviceIO, a system) it crashes. `lacks` records what the answer lacked.
- `NetworkTables`: the constructors of `OnvifDeviceInterfaces` and `OnvifDeviceNTP`. `Slot4`, `Slot6` and `SlotNtp` are the slots the C expressions really
  write (`*addresses[ttcount-1]` is `*(addresses[ttcount-1])`); a slot nobody wrote is
  `Junk`, and following it, or writing outside, sets `undefined`.
- `Scopes`: the list made of the reply, item by item, and `extract_scope` with
  `urldecode` of both the list and of a match. Values are sequences of bytes, because
  the decoding is the point. `Decoded` and `Cut`, on the side of the properties, say what
  percent-decoding and a C string are without a loop.
- `ProbeMatches`: one message after the other becomes an object, handlers are called in
  turn, read it, may keep a reference and read it again at any later time.

The four share nothing. `CameraReplies` is their sum: a behaviour is one of the four, named
by `object`, and the variables that are not its own are `Unused`. What a reply may hold
(interfaces, NTP information, scopes, entries of a message) are constants, which
`RepliesAssumption` types after the schema and `MCReplies` gives small values.

## 4. The runs

| Run | Instance | Checks | States |
|---|---|---|---|
| `device` | 2 threads, one also calls `getSystemDateTime`, 2 credentials, 2 runs of `createServices`, fair | the device: safety, what the missing unlock does, `CallsReturn` | 190,840 |
| `profile_cache` | 3 threads, 6 loads, 2 profiles, symmetric | reference counts, tokens, one fetch | 61,312 |
| `profile_cache_ref` | 2 threads, 4 loads | `CallerHoldsRef`, **violated** | |
| `soap_call` | 2 hosts, 2 ports, 2 redirects, 2 `set_credentials`, fair | bounds, endpoint, digest, termination | 603,172 |
| `soap_call_kept` | the same, no fairness | `ConnectedIsKept`, **violated** | |
| `discoverer` | 2 starters, 1 stopper, 3 runs of 2 probes, symmetric | the pointer, stops, bad closes | 407,187 |
| `snapshot` | 2 hosts, 2 ports, 2 paths, 2 redirects | texts, addresses, requests, results | 141,921 |
| `credentials` | 1 writer, 1 service, 1 download, 2 names, 2 `set_credentials` | the register, what is sent, refusals | 2,612,134 |
| `camera_clock` | clocks that differ by -7, -6, -5, 0, 3 or 20 s, 4 s, one setting of a clock, fair | tokens, unset clocks, being let in | 741,878 |
| `client_session` | 2 profiles, 2 entries, 2 faults, both media versions | what is leaked, profiles and tokens | 38,959 |
| `replies` | 3 entries, 2 attempts, 2 messages, 2 handlers | the four objects made of replies | 1,060,214 |
| `manual_addresses` | 1 interface, 2 addresses | `EveryManualReadable`, **violated** | |

What the passing runs show is stated by the comment above each property. In short:

- *Device.* Between `authenticate` calls, being authenticated and having a media1 service
  coincide, and a reported fault leaves neither (`FailureUndone`); retries leak no media1
  service; the pointer a client reads after `is_authenticated` returned true is good
  until the device is disposed; the date is stored once and two `set_credentials`
  never mix (`DataWhole`). The unlocked pointer is *not* safe before that:
  `NoMedia1Leak` has to except the step between unref and NULL. After one
  `getSystemDateTime` the device's clock, authentication and credentials never change
  again.
- *SOAP call.* At most `MaxRedirects + 8` requests (18 with the code's 10 redirects), with
  `service_lock` held for that long; a call gives up only when the address and its
  three corrections are unreachable.
- *Cache.* Exact up to the race of line 97, which needs the first list to be a fault.
- *Discoverer.* `priv->serv` never points into a frame that was left, however runs and
  stops overlap. The hazard of line 249 is the time between test and use, and it needs
  two threads in the discoverer: one that starts and stops from the callback is safe.
  A stop that took effect is obeyed at the next test. One that comes before line 210,
  and any that meets a second `start`, may be lost: `StopIsNotLost` excepts them.
- *Snapshot.* `2 * (RedirectLimit + 4)` requests at most. Only the second rewrite of one
  download reads a freed text (`TextsOwned`). The root fallback, which sets host and
  port at once, leaves the other two nothing to do (`AddressKept`). A picture without
  a fault is whole unless the camera challenged (`ResultHonest`).
- *Credentials.* A reader may see a user of one `set_credentials` and a password of another
  (the register promises nothing about the pair), but no header carries a value that
  was gone before its call began, and a call made while the credentials are the
  account is never refused.
- *Clock.* A token is off by no more than the seconds between the camera's answer and the
  subtraction. `LetsInAtLast` has to except cameras that look at the timestamp,
  which is the client's own time, dates that came late, and local dates.
- *Session.* Of the answers the client was given and the list of profiles, exactly the
  capabilities of the profiles skipped with a `continue` and the DeviceIO of the device's
  capabilities, which their reset forgets, are left at the end (`LeaksAreCapabilities`, an
  action property of the step that ends the session); every profile is seen once and
  asked for with its own token.
- *Replies.* The last entry of a namespace wins, and the earlier ones leak; beside them
  nothing leaks but the DeviceIO part of capabilities and services of an earlier attempt
  (`LeaksKnown`). `createServices` crashes on replies that lack what a constructor reads
  unseen; on a reply that has all the schema requires it crashes only if it is one of
  `GetCapabilities` without Media or DeviceIO (`MadeFromLatest`). Interface and NTP lists with more than one address are not safe;
  with one they are (`TablesSound`). Scopes are whole but behind an encoded NUL
  (`AnswersWhole`), and the two functions that answer differ only in spaces for empty
  values (`SameAnswers`). Handlers learn of every device of a message once.

Properties that belong to one idea are grouped, with the name of the idea as the property
that is checked: `DataWhole`, `FailureUndone`, `TextsOwned`, `AddressKept`, `MadeFromLatest`,
`LeaksKnown`, `TablesSound`, `AnswersWhole`, `DevicesGiven`, `MatchesLive`, `ProfilesInTurn`. The
type invariants are conjuncts of them, or, where a module has proofs, theorems.

The three violated runs are the findings in `PROJECT.json`: `get_profiles` may return
a list its caller has no reference on (`onvif_media_service.c:95-97`), an address
that took the connection is forgotten when the device answered with a SOAP fault
(`onvif_base_service_local.h:110`), and a client's loop over manual addresses follows
slots that the constructor never wrote (`onvif_device_interface.c:265`).

**Bounds.** *Device:* `MaxAttempts = 2` lets a device fail, be retried by the same or another
thread, and succeed; two threads are one in `authenticate` and one waiting or reading.
*Cache:* `MaxLoads = 6` covers two faults and a good list with every thread in flight; a
call begins only while there is room for its load, so none is cut off. *SOAP call:* two
hosts and two ports make each correction differ from or equal the current address;
two redirects have one followed by another, and the limit; one path is enough, since no
property depends on it. *Snapshot:* two of everything, because paths matter here.
*Discoverer:* three runs on two threads are one run, one that overlaps it and one after; two
probes are one that is followed by another and the last. *Credentials:* the service and the
download are the two kinds of caller, and two `set_credentials` are a right pair
and a wrong one in either order. *Clock:* with `Start = 6`, the skews put the camera before,
at and after the epoch, level with the client, near the window, and far from it; four
seconds let each step be late by more than `Window`. *Session:* two profiles are a first
and a last, and each entry is whole or lacks any one part (a device's
capabilities have any of their four); two faults stand for five,
which client and library treat alike. *Replies:* three entries let a namespace be repeated
around another; two addresses are one more than is safe; values have up to four of
seven bytes, so every escape, whole, cut or malformed, occurs; two handlers are one
that keeps what the other drops. Stops of the discoverer are not bounded. The proofs
below hold for every value of these bounds.

**Deadlock** is checked in `device`, `soap_call` and `credentials`. It is off where the system
stops by design: the cache when it is disposed or at its bound, the discoverer, a
download and the tables when they used memory that is gone or was never written, a
download and a session when they are over, the clock, a session and the tables when the
program crashed, and
replies that are disposed.

**Fairness.** `WF(Continue(t))` for each thread of the device: the scheduler runs
every thread, and a SOAP call returns because `soap_new` sets a 2 s connect and 10 s
send and receive timeouts (`onvif_base_service.c:291-292`). A mutex is not assumed
to be fair, nor is anybody bound to call; hence `CallsReturn` has the premise that
other threads stop calling `set_credentials` at some point. `WF(Continue)` in
`SoapCall` has the same justification. No fairness is put on network changes,
credentials or new calls. In `CameraClock` time passes, the code runs, the client tries
again (weak fairness of each of its steps), and a camera that is asked for ever answers
now and then with an UTC date: strong fairness of that reply, because failed
calls disable it in between.

## 5. The proofs

Eight modules hold the theorems TLAPS proves, for any number of threads, any bound,
any addresses and any replies, with no assumption but those the modules name:

| Module | Assumption | It says |
|---|---|---|
| `OnvifDevice` | `ThreadAssumption`, `NullAssumption` | no thread is the "no owner" or the NULL value, time readers are threads, NULL is no object |
| `Discoverer` | `ThreadAssumption` | no thread is NULL, starters are not stoppers |
| `MediaProfileCache` | `CacheAssumption` | finitely many threads (references are counted), bounds are numbers, NULL and junk are no lists |
| `SoapCall` | `CallAssumption` | the master address is one, bounds are numbers, NULL is no address |
| `Snapshot` | `SnapshotAssumption` | the camera's host and port are some, the limit is a number, NULL is no address or picture |
| `Credentials` | `CredentialsAssumption` | writers, services and downloads are different threads, NULL, junk and "no copy" are no strings |
| `CameraClock` | `ClockAssumption` | times are integers, windows and bounds numbers, NULL is no time |
| `ClientSession` | `SessionAssumption` | a fault is not NONE, bounds are numbers |
| `CameraReplies` | `RepliesAssumption` | bounds are numbers; replies, items and entries are of the schema's types; what an unwritten slot holds is no block |

TLC evaluates each of them in the runs. A proof module has one lemma per action, or
per part of the invariant, a theorem that the invariant is inductive, and a theorem
per property.

*OnvifDevice*. No property is inductive alone: that a failing call undoes its work
depends on nobody else being between the same lines. `IInv` has
`Owners` (a thread is inside `authenticate` exactly when it owns `auth_lock`, and
where `media_lock` and `prop_lock` are held); `Phase`, which from a thread's place
gives whether there is a media1 service, whether the device is authenticated and
whether a fault is pending; `Media1Objects`, the leak property for all object
numbers; and `ClockState`, `CredentialState` and `Trust` for the three kinds of data
a client sees. All properties of the run but `CallsReturn` follow.

*SoapCall*. `Counted` bounds the requests by what redirects, stages and challenges
have paid for; `GivenUp` says that each address left behind is unreachable and that
`new_endpoint` is the correction the stage names; `Fresh` that a digest made in this
call is as new as the call. `RequestBound` and the three action properties follow.

*Discoverer*. `Place` is where a thread is in `start` whether or not it is in `stop`
at the moment; only the steps of `start` move it (`PlaceFixed`, `PlaceMoves`). With
that, `ServOwned` is inductive. `Obeyed` adds to `StopIsPrompt` that the state is
STOPPED for as long as a stop is in force, `Alone` adds to `CloseIsSafeAlone`
that a lone thread about to close has the pointer it tested, and `Cleared` adds to
`StopIsNotLost` that a probing run's pointer is cleared only on the way to STOPPED, or
by another run.
All properties of the run are proved.

*MediaProfileCache*. `Mutex` says who owns `profile_lock`; `Cached` that the cached list
is the last one fetched and that only faults were replaced; `Loading` what the thread
inside the lock may count on; `Callers` what a caller holds, with and without the race
of line 97. With these `ReferencesExact`, which counts references by threads and is
why `FiniteSetTheorems` is needed, is inductive, and the other properties follow.

*Snapshot*. `Located` says that what `url` points to is there, `Staged` which fallback made
it, `Paid` which redirects and fallbacks paid for the requests sent, `Rewritten` when a
freed text can be read, and `Honest` that only an answer to a challenge is taken broken.
All properties of the run are proved.

*Credentials*. `Locking` says who owns the two mutexes; `Whole` that a field is junk only
while a writer holds `prop_lock`; `Seen` that every value a caller holds is one its
field had during the call; `Steady` what a call under steady credentials has read.
All properties of the run are proved, and `Refinement` shows that every step is a step
of `CredentialRegister` or leaves its variables alone: the strcpy is where a field is
set, or copied.

*CameraClock*. `AskedFor`, `Answered`, `Measured` and `Stamped` say, for each stage
of a measurement, how the value at hand relates to both clocks. Both invariants of the
run are proved, for any skew, window and delay.

*ClientSession*. `Listed` says that the service's list and the client's are one,
`InTurn` where the loop is, `Phases` which calls are under way, and `HeapExact` that
the heap, until the end, is exactly the leaked capabilities, the list and the answers the
client holds; what the last step leaves is `LeaveLeaks`. The lemmas under it (`FreesCopies`, `MadeIsFreed`, `Keyed`, `Dropping`) are about the
classes' blocks. Both properties follow.

*CameraReplies*. These models compute with loops over a reply, so their invariants
need induction over its length. `AnswerProofs` takes it from well-foundedness: `Least`
(a nonempty set of numbers has a least one), and from it `Induction`, stated of a *set*
of numbers rather than of a predicate, since a fact with a set as parameter is one the
provers can use. `Recursion` then shows that a loop, as a function on `0..N` defined
from its value one place before, exists; each loop of the models is such a function,
or, for `urldecode`, one that goes forward by one or three places (`LoopExists`).

- `ServiceInv`: which blocks and services there are, in terms of the attempt and of the
  replies, and what the last one lacked if it crashed. `LastEntry` says that `Entry`, the loop of assignments, finds the last one.
- `NetworkInv`: each slot of each array holds the item of its own place or was never
  written (`Filled`); with single addresses the last write is the only one (`SingleIsSafe`).
- `ScopesInv`: a list being built is the reply so far, a built one `ListOf` it, and an
  answer what the functions give of that list. `DecodesRight` proves that `urldecode` is
  percent-decoding: after `n` places, what the places before stand for, with what the
  loop makes of the rest, is the whole, where "the rest" begins behind the escape that
  covers place `n`. It rests on escapes not overlapping (`EscapeFacts`), since a hex digit
  is no percent sign. `DeviceAnswerJoined` and `AnswersMatch` go along `extract_scope`'s two
  loops side by side; the second has to remember, while the text is empty or begins
  with spaces, that the first value of the key was empty.
- `MatchInv`: each message is `Awaited` or `Handled`; of a handled one, the matches are its
  devices up to the entry of the loop, references are the loop's and the handlers' that
  keep it, and every handler up to `turn` was given it. `ScopesWhole` is the loop over lines.

`RepliesInv` says which of these holds, and `RepliesInductive` that it is inductive. All
properties of `replies` follow. The proof of `DecodesRight` corrected the model: the first
definition of `Nibble` had two values for each of the digits 7 to 9, which the bytes of the
run did not show; byte 56 is among them since.

Only model-checked: liveness (`CallsReturn`, `CallEnds`, `LetsInAtLast`), since fairness and
`ENABLED` are out of this prover's reach. Every safety and action property of a passing run
is a theorem.

## 6. What is not modelled

- The contents of messages, the XML layer and TLS; the ranges of C integers (no
  counter of the modelled parts can grow large).
- A failing `malloc`, and a call on a device that is being disposed: the code
  handles neither, and a caller must not do the latter.
- The DeviceIO service: two operations that no code of the repository calls, each one SOAP
  call and a plain container. Its object is in `OnvifDevice` and `ServiceTables`.
- The XSD type converter, a table lookup without state; the build, the schemas and the
  generated bindings; logging, and the GObject property plumbing.
- The certificate callback of the SOAP calls, and what gSOAP does inside a call.
- A client's session on more than one device or thread: `ClientSession` has one
  thread, `OnvifDevice`, `MediaProfileCache` and `Credentials` have several, and the
  composition of their locks is left (section 2).
