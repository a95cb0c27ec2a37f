------------------------- MODULE DeviceServicesProofs -------------------------
(***************************************************************************)
(* The Wi-Fi helper, the automatic shutdown and the keys, and the four     *)
(* services of MCDeviceServices together: results of a scan are fresh and  *)
(* the table of networks agrees with wpa_supplicant, the timer agrees with *)
(* what both threads know, and a key is handled for the press it was       *)
(* queued for, for any number of networks, events, keys and presses.       *)
(***************************************************************************)
EXTENDS MCDeviceServices, SocketIpcProofs, FiniteSetTheorems, TLAPS

-----------------------------------------------------------------------------
(* The Wi-Fi helper: scans, networks and connections.                      *)

Fresh == flushed \/ unflushed

\* Only the event monitor reports results and only the reader of results ends that:
\* meanwhile no scan starts, and no results of one are on the way.
ScanOrder ==
    /\ ui \in {"fetch", "parsed"} => cur_scan_status = "RESULTS_RECEIVED"
    /\ monitor = "results" => cur_scan_status \in {"CMD_SENT", "STARTED"}

\* Results that are, or will be, reported came after a flush.
FreshOnTheWay ==
    ui # "parsed" /\ (cur_scan_status \in {"STARTED", "RESULTS_RECEIVED"} \/ monitor = "results")
    => Fresh

\* The table was read whole, networks were changed one at a time and every request was
\* carried out.
Orderly == ~misread /\ ~overlapped /\ ~giveup /\ ~faulted

Bounded == network_num <= MaxNetworks

\* Names in the table, and no others, are networks.
Table ==
    Orderly => /\ 0 <= network_num
               /\ \A n \in NetIds : InTable(n) => network_info[n] \in Ssids
               /\ \A n \in NetIds : networks[n] = IF InTable(n) THEN network_info[n]
                                                                ELSE NoSsid

\* One connection at a time; if its network was added for it, that is still the last, and
\* a network that is about to be removed is still in the table.
LastPending ==
    Orderly => /\ ui \in {"check", "connect", "remove"} => Pending = 0
               /\ ui = "remove" => target = NoId \/ InTable(target)
               /\ ui \in {"check", "connect"} /\ ~saved => target = network_num - 1 /\ target >= 0
               /\ Pending <= 1
               /\ Pending > 0 /\ ~saved =>
                      pending_network_id = network_num - 1 /\ pending_network_id >= 0

WifiIInv == /\ WifiTypeOK /\ ScanOrder /\ FreshOnTheWay
        /\ Bounded /\ Table /\ LastPending

-----------------------------------------------------------------------------
\* If a change leaves the networks orderly, no connection was pending.
LEMMA NonePending ==
    ASSUME WifiTypeOK, Overlaps, Orderly' PROVE Pending = 0
<1>1. ~(Pending > 0)  BY Zenon DEF Overlaps, Orderly
<1>. QED  BY <1>1 DEF WifiTypeOK, Pending

\* The initial states satisfy the inductive invariant.
LEMMA InitWifiIInv == WifiInit => WifiIInv
<1>. SUFFICES ASSUME WifiInit PROVE WifiIInv  OBVIOUS
<1>. USE WifiAssumption DEF WifiInit
<1>0. PICK listed \in SUBSET {n \in NetIds : networks[n] \in Ssids}, cut \in BOOLEAN :
          TableRead(listed, cut)
  OBVIOUS
<1>1. /\ listed \subseteq NetIds /\ network_num = Cardinality(listed)
      /\ network_num \in Nat /\ network_num <= MaxNetworks
  <2>1. IsFiniteSet(NetIds) /\ Cardinality(NetIds) = MaxNetworks
    BY FS_Interval DEF NetIds
  <2>2. listed \in SUBSET NetIds  BY <1>0
  <2>. QED  BY <2>1, <2>2, <1>0, FS_Subset, FS_CardinalityType DEF TableRead
<1>2. WifiTypeOK
  <2>1. network_num \in Int /\ cur_network_id \in Int /\ NoId \in Int
    BY <1>1 DEF NoId, Known, NetIds
  <2>2. network_info \in [NetIds -> Names] /\ networks \in [NetIds -> Names]
    BY <1>0 DEF TableRead, Names
  <2>3. cur_wifi_status \in {"INVALID", "SUCCESS", "OTHER"}  OBVIOUS
  <2>4. misread \in BOOLEAN  BY <1>0, Zenon DEF TableRead
  <2>. QED  BY <2>1, <2>2, <2>3, <2>4 DEF WifiTypeOK
<1>3. ScanOrder /\ FreshOnTheWay  BY DEF ScanOrder, FreshOnTheWay, Fresh
<1>4. Bounded  BY <1>1 DEF Bounded
<1>5. Table
  <2>. SUFFICES ASSUME ~misread, NEW n \in NetIds
                PROVE  /\ InTable(n) => network_info[n] \in Ssids
                       /\ networks[n] = IF InTable(n) THEN network_info[n] ELSE NoSsid
    BY <1>1 DEF Table, Orderly
  <2>1. ~cut /\ listed = Known /\ listed = 0 .. network_num - 1
    BY <1>0, <1>1 DEF TableRead
  <2>2. CASE n \in listed
    <3>1. n \in Int /\ InTable(n)  BY <1>1, <2>1, <2>2 DEF InTable
    <3>2. {m \in listed : m < n} = 0 .. n - 1  BY <1>1, <2>1, <2>2
    <3>3. Position(n, listed) = n
      <4>1. n \in Nat /\ n - 1 \in Int  BY <2>1, <2>2
      <4>2. Cardinality(0 .. n - 1) = IF 0 > n - 1 THEN 0 ELSE n - 1 - 0 + 1
        BY <4>1, FS_Interval
      <4>3. Position(n, listed) = Cardinality(0 .. n - 1)  BY <3>2, Zenon DEF Position
      <4>. QED  BY <4>1, <4>2, <4>3
    <3>4. network_info[n] = networks[n]  BY <1>0, <2>1, <2>2, <3>3 DEF TableRead
    <3>. QED  BY <1>0, <2>2, <3>1, <3>4
  <2>3. CASE n \notin listed
    <3>1. ~InTable(n)  BY <1>1, <2>1, <2>3 DEF InTable, NetIds
    <3>. QED  BY <2>1, <2>3, <3>1 DEF Known
  <2>. QED  BY <2>2, <2>3
<1>6. LastPending  BY DEF LastPending, Pending
<1>. QED  BY <1>2, <1>3, <1>4, <1>5, <1>6 DEF WifiIInv

\* While the table agrees, the identifier of a new network is the next of the table.
LEMMA NextId ==
    ASSUME WifiTypeOK, Bounded, Table, Orderly, NewId \in NetIds
    PROVE  NewId = network_num
<1>. USE WifiAssumption
<1>. DEFINE k == network_num
<1>1. k \in Int /\ 0 <= k /\ k <= MaxNetworks /\ MaxNetworks \in Nat
  BY DEF WifiTypeOK, Table, Bounded
<1>2. ASSUME NEW n \in NetIds PROVE n \in Known <=> n < k
  BY <1>1, <1>2 DEF Known, Table, InTable, NetIds
<1>3. CASE k = 0
  <2>1. Known = {}  BY <1>1, <1>2, <1>3 DEF Known, NetIds
  <2>. QED  BY <2>1, <1>3 DEF NewId
<1>4. CASE k > 0
  <2>1. k - 1 \in NetIds /\ k - 1 \in Known  BY <1>1, <1>2, <1>4 DEF NetIds
  <2>2. \A n \in Known : n \in Int /\ k - 1 >= n  BY <1>1, <1>2 DEF Known, NetIds
  <2>3. Max(Known) \in Known /\ \A n \in Known : Max(Known) >= n  BY <2>1, <2>2 DEF Max
  <2>4. Max(Known) = k - 1  BY <1>1, <2>1, <2>2, <2>3
  <2>. QED  BY <1>1, <2>1, <2>4 DEF NewId
<1>. QED  BY <1>1, <1>3, <1>4

\* A scan command: the inductive invariant stays.
LEMMA Step_ScanCommand ==
    ASSUME WifiIInv, ScanCommand PROVE WifiIInv'
<1>. USE WifiAssumption DEF WifiIInv, ScanCommand, scanVars, tableVars, connVars, pastVars
<1>1. WifiTypeOK'  BY DEF WifiTypeOK, NetIds, NoId, Known, Overlaps, InTable
<1>2. ScanOrder' /\ FreshOnTheWay'  BY DEF ScanOrder, FreshOnTheWay, Fresh, Scanning
<1>3. Bounded' /\ Table'  BY DEF Bounded, Table, Orderly, Overlaps, InTable, WifiTypeOK
<1>4. LastPending'  BY DEF LastPending, Orderly, Overlaps, Pending, WifiTypeOK, InTable
<1>. QED  BY <1>1, <1>2, <1>3, <1>4

\* Noting a scan command: the inductive invariant stays.
LEMMA Step_ScanSent ==
    ASSUME WifiIInv, ScanSent PROVE WifiIInv'
<1>. USE WifiAssumption DEF WifiIInv, ScanSent, scanVars, tableVars, connVars, pastVars
<1>1. WifiTypeOK'  BY DEF WifiTypeOK, NetIds, NoId, Known, Overlaps, InTable
<1>2. ScanOrder' /\ FreshOnTheWay'  BY DEF ScanOrder, FreshOnTheWay, Fresh, Scanning
<1>3. Bounded' /\ Table'  BY DEF Bounded, Table, Orderly, Overlaps, InTable, WifiTypeOK
<1>4. LastPending'  BY DEF LastPending, Orderly, Overlaps, Pending, WifiTypeOK, InTable
<1>. QED  BY <1>1, <1>2, <1>3, <1>4

\* Waiting for results: the inductive invariant stays.
LEMMA Step_ResultsWait ==
    ASSUME WifiIInv, ResultsWait PROVE WifiIInv'
<1>. USE WifiAssumption DEF WifiIInv, ResultsWait, scanVars, tableVars, connVars, pastVars
<1>1. WifiTypeOK'  BY DEF WifiTypeOK, NetIds, NoId, Known, Overlaps, InTable
<1>2. ScanOrder' /\ FreshOnTheWay'  BY DEF ScanOrder, FreshOnTheWay, Fresh, Scanning
<1>3. Bounded' /\ Table'  BY DEF Bounded, Table, Orderly, Overlaps, InTable, WifiTypeOK
<1>4. LastPending'  BY DEF LastPending, Orderly, Overlaps, Pending, WifiTypeOK, InTable
<1>. QED  BY <1>1, <1>2, <1>3, <1>4

\* Reading results: the inductive invariant stays.
LEMMA Step_ResultsRead ==
    ASSUME WifiIInv, ResultsRead PROVE WifiIInv'
<1>. USE WifiAssumption DEF WifiIInv, ResultsRead, scanVars, tableVars, connVars, pastVars
<1>0. flushed' \in BOOLEAN /\ unflushed' \in BOOLEAN  BY Zenon DEF WifiTypeOK
<1>1. WifiTypeOK'  BY <1>0 DEF WifiTypeOK
<1>2. ScanOrder' /\ FreshOnTheWay'  BY DEF ScanOrder, FreshOnTheWay, Fresh, Scanning
<1>3. Bounded' /\ Table'  BY DEF Bounded, Table, Orderly, Overlaps, InTable, WifiTypeOK
<1>4. LastPending'  BY DEF LastPending, Orderly, Overlaps, Pending, WifiTypeOK, InTable
<1>. QED  BY <1>1, <1>2, <1>3, <1>4

\* The end of reading results: the inductive invariant stays.
LEMMA Step_ResultsDone ==
    ASSUME WifiIInv, ResultsDone PROVE WifiIInv'
<1>. USE WifiAssumption DEF WifiIInv, ResultsDone, scanVars, tableVars, connVars, pastVars
<1>1. WifiTypeOK'  BY DEF WifiTypeOK, NetIds, NoId, Known, Overlaps, InTable
<1>2. ScanOrder' /\ FreshOnTheWay'  BY DEF ScanOrder, FreshOnTheWay, Fresh, Scanning
<1>3. Bounded' /\ Table'  BY DEF Bounded, Table, Orderly, Overlaps, InTable, WifiTypeOK
<1>4. LastPending'  BY DEF LastPending, Orderly, Overlaps, Pending, WifiTypeOK, InTable
<1>. QED  BY <1>1, <1>2, <1>3, <1>4

\* A call that connects to a saved network: the inductive invariant stays.
LEMMA Step_ConnectSaved ==
    ASSUME NEW n \in NetIds, WifiIInv, ConnectSaved(n) PROVE WifiIInv'
<1>. USE WifiAssumption DEF WifiIInv, ConnectSaved, scanVars, tableVars, connVars, pastVars
<1>0. overlapped' \in BOOLEAN  BY Zenon DEF WifiTypeOK, Overlaps
<1>1. WifiTypeOK'  BY <1>0 DEF WifiTypeOK, NetIds
<1>2. ScanOrder' /\ FreshOnTheWay'  BY DEF ScanOrder, FreshOnTheWay, Fresh, Scanning
<1>3. Bounded' /\ Table'  BY DEF Bounded, Table, Orderly, Overlaps, InTable, WifiTypeOK
<1>4. LastPending'
  <2>1. SUFFICES ASSUME Orderly' PROVE Pending = 0
    BY DEF LastPending, Orderly, Pending, WifiTypeOK
  <2>. QED  BY <2>1, NonePending
<1>. QED  BY <1>1, <1>2, <1>3, <1>4

\* The check of the identifier: the inductive invariant stays.
LEMMA Step_ConnectCheck ==
    ASSUME WifiIInv, ConnectCheck PROVE WifiIInv'
<1>. USE WifiAssumption DEF WifiIInv, ConnectCheck, scanVars, tableVars, connVars, pastVars
<1>1. WifiTypeOK'  BY DEF WifiTypeOK, NetIds, NoId, Known, Overlaps, InTable
<1>2. ScanOrder' /\ FreshOnTheWay'  BY DEF ScanOrder, FreshOnTheWay, Fresh, Scanning
<1>3. Bounded' /\ Table'  BY DEF Bounded, Table, Orderly, Overlaps, InTable, WifiTypeOK
<1>4. LastPending'  BY DEF LastPending, Orderly, Overlaps, Pending, WifiTypeOK, InTable
<1>. QED  BY <1>1, <1>2, <1>3, <1>4

\* The start of a connection: the inductive invariant stays.
LEMMA Step_Connect ==
    ASSUME WifiIInv, Connect PROVE WifiIInv'
<1>. USE WifiAssumption DEF WifiIInv, Connect, scanVars, tableVars, connVars, pastVars
<1>1. WifiTypeOK'  BY DEF WifiTypeOK, NetIds, NoId, Known, Overlaps, InTable
<1>2. ScanOrder' /\ FreshOnTheWay'  BY DEF ScanOrder, FreshOnTheWay, Fresh, Scanning
<1>3. Bounded' /\ Table'  BY DEF Bounded, Table, Orderly, Overlaps, InTable, WifiTypeOK
<1>4. LastPending'  BY DEF LastPending, Orderly, Overlaps, Pending, WifiTypeOK, InTable
<1>. QED  BY <1>1, <1>2, <1>3, <1>4

\* A disconnection: the inductive invariant stays.
LEMMA Step_Disconnect ==
    ASSUME WifiIInv, Disconnect PROVE WifiIInv'
<1>. USE WifiAssumption DEF WifiIInv, Disconnect, scanVars, tableVars, connVars, pastVars
<1>1. WifiTypeOK'  BY DEF WifiTypeOK, NetIds, NoId, Known, Overlaps, InTable
<1>2. ScanOrder' /\ FreshOnTheWay'  BY DEF ScanOrder, FreshOnTheWay, Fresh, Scanning
<1>3. Bounded' /\ Table'  BY DEF Bounded, Table, Orderly, Overlaps, InTable, WifiTypeOK
<1>4. LastPending'  BY DEF LastPending, Orderly, Overlaps, Pending, WifiTypeOK, InTable
<1>. QED  BY <1>1, <1>2, <1>3, <1>4

\* The start of a scan: the inductive invariant stays.
LEMMA Step_ScanStarted ==
    ASSUME WifiIInv, ScanStarted PROVE WifiIInv'
<1>. USE WifiAssumption DEF WifiIInv, ScanStarted, scanVars, tableVars, connVars, pastVars
<1>1. WifiTypeOK'
  <2>1. flushed' \in BOOLEAN  BY Zenon DEF WifiTypeOK
  <2>2. unflushed' \in BOOLEAN  BY Zenon DEF WifiTypeOK
  <2>3. UNCHANGED <<tableVars, connVars, pastVars, monitor, ui, target>>  OBVIOUS
  <2>. HIDE DEF ScanStarted
  <2>4. cur_scan_status' = "STARTED"  BY DEF ScanStarted
  <2>. QED  BY <2>1, <2>2, <2>3, <2>4 DEF WifiTypeOK
<1>0. Fresh'
  <2>1. flushed = TRUE \/ flushed = FALSE  BY Zenon DEF WifiTypeOK
  <2>2. CASE flushed = TRUE  BY <2>2, Zenon DEF Fresh
  <2>3. CASE flushed = FALSE  BY <2>3, Zenon DEF Fresh
  <2>. QED  BY <2>1, <2>2, <2>3
<1>2. ScanOrder' /\ FreshOnTheWay'  BY <1>0 DEF ScanOrder, FreshOnTheWay
<1>3. Bounded' /\ Table'  BY DEF Bounded, Table, Orderly, Overlaps, InTable, WifiTypeOK
<1>4. LastPending'  BY DEF LastPending, Orderly, Overlaps, Pending, WifiTypeOK, InTable
<1>. QED  BY <1>1, <1>2, <1>3, <1>4

\* An event of results: the inductive invariant stays.
LEMMA Step_ScanResults ==
    ASSUME WifiIInv, ScanResults PROVE WifiIInv'
<1>. USE WifiAssumption DEF WifiIInv, ScanResults, scanVars, tableVars, connVars, pastVars
<1>1. WifiTypeOK'  BY DEF WifiTypeOK, NetIds, NoId, Known, Overlaps, InTable
<1>2. ScanOrder' /\ FreshOnTheWay'  BY DEF ScanOrder, FreshOnTheWay, Fresh, Scanning
<1>3. Bounded' /\ Table'  BY DEF Bounded, Table, Orderly, Overlaps, InTable, WifiTypeOK
<1>4. LastPending'  BY DEF LastPending, Orderly, Overlaps, Pending, WifiTypeOK, InTable
<1>. QED  BY <1>1, <1>2, <1>3, <1>4

\* Noting that results are there: the inductive invariant stays.
LEMMA Step_ScanReceived ==
    ASSUME WifiIInv, ScanReceived PROVE WifiIInv'
<1>. USE WifiAssumption DEF WifiIInv, ScanReceived, scanVars, tableVars, connVars, pastVars
<1>1. WifiTypeOK'  BY DEF WifiTypeOK, NetIds, NoId, Known, Overlaps, InTable
<1>2. ScanOrder' /\ FreshOnTheWay'  BY DEF ScanOrder, FreshOnTheWay, Fresh, Scanning
<1>3. Bounded' /\ Table'  BY DEF Bounded, Table, Orderly, Overlaps, InTable, WifiTypeOK
<1>4. LastPending'  BY DEF LastPending, Orderly, Overlaps, Pending, WifiTypeOK, InTable
<1>. QED  BY <1>1, <1>2, <1>3, <1>4

\* An event of a connection: the inductive invariant stays.
LEMMA Step_Connected ==
    ASSUME WifiIInv, Connected PROVE WifiIInv'
<1>. USE WifiAssumption DEF WifiIInv, Connected, scanVars, tableVars, connVars, pastVars
<1>1. WifiTypeOK'  BY DEF WifiTypeOK, NetIds, NoId, Known, Overlaps, InTable
<1>2. ScanOrder' /\ FreshOnTheWay'  BY DEF ScanOrder, FreshOnTheWay, Fresh, Scanning
<1>3. Bounded' /\ Table'  BY DEF Bounded, Table, Orderly, Overlaps, InTable, WifiTypeOK
<1>4. LastPending'  BY DEF LastPending, Orderly, Overlaps, Pending, WifiTypeOK, InTable
<1>. QED  BY <1>1, <1>2, <1>3, <1>4

\* Noting a connection: the inductive invariant stays.
LEMMA Step_ConnectedDone ==
    ASSUME WifiIInv, ConnectedDone PROVE WifiIInv'
<1>. USE WifiAssumption DEF WifiIInv, ConnectedDone, scanVars, tableVars, connVars, pastVars
<1>1. WifiTypeOK'  BY DEF WifiTypeOK, NetIds, NoId, Known, Overlaps, InTable
<1>2. ScanOrder' /\ FreshOnTheWay'  BY DEF ScanOrder, FreshOnTheWay, Fresh, Scanning
<1>3. Bounded' /\ Table'  BY DEF Bounded, Table, Orderly, Overlaps, InTable, WifiTypeOK
<1>4. LastPending'  BY DEF LastPending, Orderly, Overlaps, Pending, WifiTypeOK, InTable
<1>. QED  BY <1>1, <1>2, <1>3, <1>4

\* Any other event: the inductive invariant stays.
LEMMA Step_OtherEvent ==
    ASSUME WifiIInv, OtherEvent PROVE WifiIInv'
<1>. USE WifiAssumption DEF WifiIInv, OtherEvent, scanVars, tableVars, connVars, pastVars
<1>1. WifiTypeOK'  BY DEF WifiTypeOK, NetIds, NoId, Known, Overlaps, InTable
<1>2. ScanOrder' /\ FreshOnTheWay'  BY DEF ScanOrder, FreshOnTheWay, Fresh, Scanning
<1>3. Bounded' /\ Table'  BY DEF Bounded, Table, Orderly, Overlaps, InTable, WifiTypeOK
<1>4. LastPending'  BY DEF LastPending, Orderly, Overlaps, Pending, WifiTypeOK, InTable
<1>. QED  BY <1>1, <1>2, <1>3, <1>4

\* Seeing that a connection succeeded: the inductive invariant stays.
LEMMA Step_Success ==
    ASSUME WifiIInv, Success PROVE WifiIInv'
<1>. USE WifiAssumption DEF WifiIInv, Success, scanVars, tableVars, connVars, pastVars
<1>1. WifiTypeOK'  BY DEF WifiTypeOK, NetIds, NoId, Known, Overlaps, InTable
<1>2. ScanOrder' /\ FreshOnTheWay'  BY DEF ScanOrder, FreshOnTheWay, Fresh, Scanning
<1>3. Bounded' /\ Table'  BY DEF Bounded, Table, Orderly, Overlaps, InTable, WifiTypeOK
<1>4. LastPending'  BY DEF LastPending, Orderly, Overlaps, Pending, WifiTypeOK, InTable
<1>. QED  BY <1>1, <1>2, <1>3, <1>4

\* The end of the wait for a connection: the inductive invariant stays.
LEMMA Step_Timeout ==
    ASSUME WifiIInv, Timeout PROVE WifiIInv'
<1>. USE WifiAssumption DEF WifiIInv, Timeout, scanVars, tableVars, connVars, pastVars
<1>1. WifiTypeOK'  BY DEF WifiTypeOK, NetIds, NoId, Known, Overlaps, InTable
<1>2. ScanOrder' /\ FreshOnTheWay'  BY DEF ScanOrder, FreshOnTheWay, Fresh, Scanning
<1>3. Bounded' /\ Table'  BY DEF Bounded, Table, Orderly, Overlaps, InTable, WifiTypeOK
<1>4. LastPending'  BY DEF LastPending, Orderly, Overlaps, Pending, WifiTypeOK, InTable
<1>. QED  BY <1>1, <1>2, <1>3, <1>4

\* A request to wpa_supplicant leaves a function of names, and its failure is noted.
LEMMA DroppedType ==
    ASSUME NEW ids, NEW nets \in [NetIds -> Names], networks \in [NetIds -> Names],
           faulted \in BOOLEAN, Dropped(ids, nets)
    PROVE  networks' \in [NetIds -> Names] /\ faulted' \in BOOLEAN
<1>1. faulted' \in BOOLEAN  BY Zenon DEF Dropped
<1>2. \A f \in [NetIds -> Names] : Without(ids, f) \in [NetIds -> Names]
  BY DEF Without, Names
<1>3. networks' \in {nets, Without(ids, nets), Without(ids, networks)}  BY DEF Dropped
<1>. QED  BY <1>1, <1>2, <1>3

\* A network that is given a name, or is not there.
LEMMA SetType ==
    ASSUME NEW n, NEW s \in Names, NEW nets \in [NetIds -> Names]
    PROVE  Set(n, s, nets) \in [NetIds -> Names]
BY DEF Set

\* Adding a network: the inductive invariant stays.
LEMMA Step_AddNetwork ==
    ASSUME NEW s \in Ssids, WifiIInv, AddNetwork(s) PROVE WifiIInv'
<1>. USE WifiAssumption DEF WifiIInv, AddNetwork, scanVars, connVars
<1>. DEFINE added == [networks EXCEPT ![NewId] = Blank]
<1>0. overlapped' \in BOOLEAN  BY Zenon DEF WifiTypeOK, Overlaps
<1>1. s \in Names /\ s # NoSsid /\ 0 \in NetIds /\ target' \in NetIds /\ target' \in Int
  BY DEF Names, NetIds
<1>2. networks' \in [NetIds -> Names] /\ faulted' \in BOOLEAN
  <2>1. faulted' \in BOOLEAN  BY Zenon DEF WifiTypeOK
  <2>2. networks \in [NetIds -> Names] /\ added \in [NetIds -> Names]
    BY DEF WifiTypeOK, Names, added
  <2>3. networks' \in {Set(NewId, s, added), Set(target', s, networks), Set(target', s, added),
                       added}
    BY DEF added
  <2>4. /\ Set(NewId, s, added) \in [NetIds -> Names]
        /\ Set(target', s, networks) \in [NetIds -> Names]
        /\ Set(target', s, added) \in [NetIds -> Names]
    <3>. HIDE DEF added
    <3>. QED  BY <1>1, <2>2, SetType
  <2>5. networks' \in [NetIds -> Names]  BY <2>2, <2>3, <2>4, Zenon
  <2>. QED  BY <2>1, <2>5
<1>3. network_info' \in [NetIds -> Names]  BY <1>1 DEF WifiTypeOK
<1>4. WifiTypeOK'
  <2>1. UNCHANGED <<cur_scan_status, cur_wifi_status, cur_network_id, pending_network_id,
                    watching, timedout, joined, flushed, unflushed, giveup, misread, monitor>>
    OBVIOUS
  <2>2. network_num' \in Int /\ connects' \in Nat /\ removes' \in Nat
    BY DEF WifiTypeOK
  <2>3. ui' = "check" /\ saved' = FALSE  OBVIOUS
  <2>. QED  BY <1>0, <1>1, <1>2, <1>3, <2>1, <2>2, <2>3 DEF WifiTypeOK
<1>5. ScanOrder' /\ FreshOnTheWay'  BY DEF ScanOrder, FreshOnTheWay, Fresh
<1>6. Bounded'  BY DEF Bounded, WifiTypeOK
<1>7. ASSUME Orderly' PROVE /\ Orderly /\ Pending = 0 /\ target' = network_num
                            /\ networks' = [networks EXCEPT ![network_num] = s]
                            /\ network_info' = [network_info EXCEPT ![network_num] = s]
  <2>0. faulted' = faulted \/ faulted' = TRUE  BY Zenon
  <2>1. Orderly /\ ~faulted'
    <3>1. ~overlapped  BY <1>7, Zenon DEF Orderly, Overlaps
    <3>. QED  BY <1>7, <2>0, <3>1 DEF Orderly
  <2>2. Pending = 0  BY <1>7, NonePending
  <2>3. NewId = network_num  BY <2>1, NextId
  <2>4. target' = NewId /\ networks' = Set(NewId, s, added)  BY <2>1
  <2>5. Set(NewId, s, added) = [networks EXCEPT ![NewId] = s]
    BY DEF Set, WifiTypeOK
  <2>. QED  BY <2>1, <2>2, <2>3, <2>4, <2>5
<1>8. Table'
  <2>. SUFFICES ASSUME Orderly' PROVE /\ 0 <= network_num'
                                      /\ \A n \in NetIds :
                                           /\ InTable(n)' => network_info'[n] \in Ssids
                                           /\ networks'[n] = IF InTable(n)' THEN network_info'[n]
                                                                            ELSE NoSsid
    BY DEF Table
  <2>. QED  BY <1>1, <1>7 DEF Table, InTable, WifiTypeOK, NetIds
<1>9. LastPending'
  <2>. SUFFICES ASSUME Orderly' PROVE /\ Pending' = 0
                                      /\ target' = network_num' - 1 /\ target' >= 0
    BY <1>4 DEF LastPending, Pending
  <2>. QED  BY <1>1, <1>7 DEF Pending, WifiTypeOK, NetIds
<1>. QED  BY <1>4, <1>5, <1>6, <1>8, <1>9

\* The check before a removal: the inductive invariant stays.
LEMMA Step_RemoveCheck ==
    ASSUME NEW n \in NetIds \cup {NoId}, WifiIInv, RemoveCheck(n) PROVE WifiIInv'
<1>. USE WifiAssumption DEF WifiIInv, RemoveCheck, scanVars, tableVars, connVars
<1>0. overlapped' \in BOOLEAN  BY Zenon DEF WifiTypeOK, Overlaps
<1>1. WifiTypeOK'  BY <1>0 DEF WifiTypeOK, NetIds, NoId
<1>2. ScanOrder' /\ FreshOnTheWay'  BY DEF ScanOrder, FreshOnTheWay, Fresh
<1>3. Bounded' /\ Table'  BY DEF Bounded, Table, Orderly, Overlaps, InTable, WifiTypeOK
<1>4. LastPending'
  <2>1. SUFFICES ASSUME Orderly' PROVE Pending = 0
    BY DEF LastPending, Orderly, Pending, WifiTypeOK, InTable
  <2>. QED  BY <2>1, NonePending
<1>. QED  BY <1>1, <1>2, <1>3, <1>4

\* Removing a network: the inductive invariant stays.
LEMMA Step_RemoveNetwork ==
    ASSUME WifiIInv, RemoveNetwork PROVE WifiIInv'
<1>. USE WifiAssumption DEF WifiIInv, scanVars, connVars
<1>. DEFINE last == network_num - 1
            swaps == target \notin {NoId, last}
            nets == IF swaps /\ last \in Known /\ networks[last] # Blank
                    THEN Set(target, networks[last], networks) ELSE networks
<1>1. /\ ui = "remove" /\ ui' = "idle" /\ target' = NoId
      /\ Dropped(IF target = NoId THEN NetIds ELSE {last}, nets)
      /\ network_num' = IF target = NoId THEN 0 ELSE last
      /\ IF swaps THEN \E s \in IF last \in NetIds THEN {LastSsid} ELSE Names :
                          network_info' = [network_info EXCEPT ![target] = s]
         ELSE network_info' = network_info
      /\ UNCHANGED <<scanVars, connVars, connects, removes, saved, overlapped, giveup,
                     misread, monitor>>
  BY DEF RemoveNetwork
<1>2. target \in Int /\ NoId \in Int /\ NoId \notin NetIds /\ last \in Int
  BY DEF NetIds, NoId, WifiTypeOK
<1>3. nets \in [NetIds -> Names]
  <2>1. last \in Known => networks[last] \in Names  BY DEF Known, WifiTypeOK
  <2>. QED  BY <2>1, SetType DEF WifiTypeOK
<1>4. networks' \in [NetIds -> Names] /\ faulted' \in BOOLEAN
  BY <1>1, <1>3, DroppedType DEF WifiTypeOK
<1>5. network_info' \in [NetIds -> Names]
  <2>1. \A s \in IF last \in NetIds THEN {LastSsid} ELSE Names : s \in Names
    BY DEF WifiTypeOK, LastSsid
  <2>. QED  BY <1>1, <2>1 DEF WifiTypeOK
<1>. HIDE DEF nets, swaps, last
<1>6. WifiTypeOK'
  <2>1. network_num' \in Int  BY <1>1, <1>2
  <2>. QED  BY <1>1, <1>2, <1>4, <1>5, <2>1 DEF WifiTypeOK
<1>7. ScanOrder' /\ FreshOnTheWay'  BY <1>1 DEF ScanOrder, FreshOnTheWay, Fresh
<1>8. Bounded'  BY <1>1 DEF Bounded, WifiTypeOK, last
<1>9. ASSUME Orderly' PROVE Orderly /\ Pending = 0 /\ (target = NoId \/ InTable(target))
  <2>1. ~overlapped /\ ~giveup /\ ~misread  BY <1>1, <1>9 DEF Orderly
  <2>2. ~faulted  BY <1>1, <1>9, Zenon DEF Orderly, Dropped
  <2>. QED  BY <1>1, <2>1, <2>2 DEF Orderly, LastPending
<1>10. Table'
  <2>. SUFFICES ASSUME Orderly' PROVE /\ 0 <= network_num'
                                      /\ \A i \in NetIds :
                                           /\ InTable(i)' => network_info'[i] \in Ssids
                                           /\ networks'[i] = IF InTable(i)' THEN network_info'[i]
                                                                            ELSE NoSsid
    BY DEF Table
  <2>1. networks' = Without(IF target = NoId THEN NetIds ELSE {last}, nets)
    BY <1>1 DEF Dropped, Orderly
  <2>2. 0 <= network_num /\ Orderly
        /\ \A i \in NetIds : /\ InTable(i) => network_info[i] \in Ssids
                             /\ networks[i] = IF InTable(i) THEN network_info[i] ELSE NoSsid
    BY <1>9 DEF Table
  <2>3. CASE target = NoId
    <3>1. network_num' = 0  BY <1>1, <2>3
    <3>. QED  BY <2>1, <2>3, <3>1 DEF InTable, Without, NetIds
  <2>4. ASSUME target # NoId
        PROVE  /\ target \in NetIds /\ last \in NetIds /\ InTable(target) /\ InTable(last)
               /\ network_num' = last /\ 0 <= network_num'
               /\ \A i \in NetIds : /\ InTable(i)' <=> (InTable(i) /\ i # last)
                                    /\ networks'[i] = IF i = last THEN NoSsid ELSE nets[i]
    <3>1. InTable(target) /\ network_num' = last  BY <1>1, <1>9, <2>4
    <3>2. target \in NetIds /\ last \in NetIds /\ InTable(last) /\ 0 <= last
      BY <1>2, <3>1 DEF InTable, last, Bounded, WifiTypeOK, NetIds
    <3>3. \A i \in NetIds : InTable(i)' <=> (InTable(i) /\ i # last)
      BY <1>2, <3>1 DEF InTable, last, WifiTypeOK, NetIds
    <3>. QED  BY <2>1, <2>4, <3>1, <3>2, <3>3 DEF Without
  <2>5. CASE target # NoId /\ target = last
    <3>1. ~swaps /\ nets = networks  BY <2>5 DEF swaps, nets
    <3>2. network_info' = network_info  BY <1>1, <3>1
    <3>. QED  BY <2>2, <2>4, <2>5, <3>1, <3>2
  <2>6. CASE target # NoId /\ target # last
    <3>1. networks[target] \in Ssids /\ networks[last] \in Ssids
      BY <2>2, <2>4, <2>6
    <3>2. swaps /\ nets = [networks EXCEPT ![target] = networks[last]]
      BY <2>4, <2>6, <3>1 DEF swaps, nets, Set, Known
    <3>3. network_info' = [network_info EXCEPT ![target] = network_info[last]]
      BY <1>1, <2>4, <2>6, <3>2 DEF LastSsid, last
    <3>4. ASSUME NEW i \in NetIds
          PROVE  /\ nets[i] = IF i = target THEN networks[last] ELSE networks[i]
                 /\ network_info'[i] = IF i = target THEN network_info[last]
                                                     ELSE network_info[i]
      BY <3>2, <3>3 DEF WifiTypeOK
    <3>. QED  BY <2>2, <2>4, <2>6, <3>4
  <2>. QED  BY <2>3, <2>5, <2>6
<1>11. LastPending'
  <2>. SUFFICES ASSUME Orderly' PROVE Pending = 0
    BY <1>1, <1>6 DEF LastPending, Pending, WifiTypeOK
  <2>. QED  BY <1>9
<1>. QED  BY <1>6, <1>7, <1>8, <1>10, <1>11

\* A connection that timed out: the inductive invariant stays.
LEMMA Step_TimeoutEnds ==
    ASSUME WifiIInv, TimeoutEnds PROVE WifiIInv'
<1>. USE WifiAssumption DEF WifiIInv, scanVars, tableVars
<1>1. /\ timedout > 0 /\ timedout' = timedout - 1 /\ pending_network_id' = NoId
      /\ Failed \/ UNCHANGED <<network_num, network_info, networks, giveup, faulted>>
      /\ cur_network_id' \in {cur_network_id, NoId}
      /\ cur_wifi_status' \in {cur_wifi_status, "OTHER"}
      /\ UNCHANGED <<cur_scan_status, flushed, unflushed, watching, joined, connects,
                     removes, saved,
                     overlapped, misread, monitor, ui, target>>
  BY DEF TimeoutEnds
<1>2. NoId \in Int /\ Pending' = Pending - 1 /\ Pending' \in Nat
  BY <1>1 DEF NoId, Pending, WifiTypeOK
<1>3. /\ networks' \in [NetIds -> Names] /\ faulted' \in BOOLEAN /\ giveup' \in BOOLEAN
      /\ network_num' \in Int /\ network_info' = network_info
  <2>1. giveup' \in BOOLEAN  BY <1>1, Zenon DEF Failed, WifiTypeOK
  <2>2. networks' \in [NetIds -> Names] /\ faulted' \in BOOLEAN
    BY <1>1, DroppedType DEF Failed, WifiTypeOK
  <2>. QED  BY <1>1, <2>1, <2>2 DEF Failed, WifiTypeOK
<1>4. WifiTypeOK'  BY <1>1, <1>2, <1>3 DEF WifiTypeOK
<1>5. ScanOrder' /\ FreshOnTheWay'  BY <1>1 DEF ScanOrder, FreshOnTheWay, Fresh
<1>6. Bounded'  BY <1>1 DEF Bounded, Failed, WifiTypeOK
<1>7. ASSUME Orderly' PROVE Orderly /\ (Failed => ~saved) /\ faulted' = faulted
  <2>1. CASE UNCHANGED <<network_num, network_info, networks, giveup, faulted>> /\ ~Failed
    BY <1>1, <1>7, <2>1 DEF Orderly
  <2>2. CASE Failed
    <3>1. ~giveup /\ ~saved  BY <1>7, <2>2, Zenon DEF Orderly, Failed
    <3>2. ~faulted /\ ~faulted'  BY <1>7, <2>2, Zenon DEF Orderly, Failed, Dropped
    <3>. QED  BY <1>1, <1>7, <3>1, <3>2, <1>4 DEF Orderly, WifiTypeOK
  <2>. QED  BY <1>1, <2>1, <2>2
<1>8. ASSUME Orderly, Failed, ~saved
      PROVE  pending_network_id = network_num - 1 /\ 0 <= network_num - 1
  BY <1>1, <1>8 DEF LastPending, Pending, WifiTypeOK
<1>9. Table'
  <2>. SUFFICES ASSUME Orderly' PROVE /\ 0 <= network_num'
                                      /\ \A i \in NetIds :
                                           /\ InTable(i)' => network_info[i] \in Ssids
                                           /\ networks'[i] = IF InTable(i)' THEN network_info[i]
                                                                            ELSE NoSsid
    BY <1>3 DEF Table
  <2>1. CASE ~Failed
    BY <1>1, <1>7, <2>1 DEF Table, InTable
  <2>2. CASE Failed
    <3>1. /\ pending_network_id = network_num - 1 /\ 0 <= network_num - 1
          /\ network_num' = network_num - 1
      BY <1>7, <1>8, <2>2 DEF Failed
    <3>2. networks' = [i \in NetIds |-> IF i = network_num - 1 THEN NoSsid ELSE networks[i]]
      BY <1>7, <2>2, <3>1 DEF Failed, Dropped, Without, Orderly
    <3>. QED  BY <1>7, <3>1, <3>2 DEF Table, InTable, WifiTypeOK, NetIds, NoId
  <2>. QED  BY <2>1, <2>2
<1>10. LastPending'
  <2>. SUFFICES ASSUME Orderly' PROVE Pending' = 0 /\ ui \notin {"check", "connect", "remove"}
    BY <1>1 DEF LastPending
  <2>. QED  BY <1>1, <1>2, <1>7 DEF LastPending, Pending, WifiTypeOK
<1>. QED  BY <1>4, <1>5, <1>6, <1>9, <1>10


\* The success of a connection, or of another one: the inductive invariant stays.
LEMMA Step_SuccessEnds ==
    ASSUME WifiIInv, SuccessEnds PROVE WifiIInv'
<1>. USE WifiAssumption DEF WifiIInv, scanVars, tableVars
<1>1. /\ joined > 0 /\ joined' = joined - 1 /\ pending_network_id' = NoId
      /\ Failed \/ UNCHANGED <<network_num, network_info, networks, giveup, faulted>>
      /\ cur_network_id' \in {cur_network_id, NoId}
      /\ cur_wifi_status' \in {cur_wifi_status, "OTHER"}
      /\ UNCHANGED <<cur_scan_status, flushed, unflushed, watching, timedout, connects,
                     removes, saved,
                     overlapped, misread, monitor, ui, target>>
  BY DEF SuccessEnds
<1>2. NoId \in Int /\ Pending' = Pending - 1 /\ Pending' \in Nat
  BY <1>1 DEF NoId, Pending, WifiTypeOK
<1>3. /\ networks' \in [NetIds -> Names] /\ faulted' \in BOOLEAN /\ giveup' \in BOOLEAN
      /\ network_num' \in Int /\ network_info' = network_info
  <2>1. giveup' \in BOOLEAN  BY <1>1, Zenon DEF Failed, WifiTypeOK
  <2>2. networks' \in [NetIds -> Names] /\ faulted' \in BOOLEAN
    BY <1>1, DroppedType DEF Failed, WifiTypeOK
  <2>. QED  BY <1>1, <2>1, <2>2 DEF Failed, WifiTypeOK
<1>4. WifiTypeOK'  BY <1>1, <1>2, <1>3 DEF WifiTypeOK
<1>5. ScanOrder' /\ FreshOnTheWay'  BY <1>1 DEF ScanOrder, FreshOnTheWay, Fresh
<1>6. Bounded'  BY <1>1 DEF Bounded, Failed, WifiTypeOK
<1>7. ASSUME Orderly' PROVE Orderly /\ (Failed => ~saved) /\ faulted' = faulted
  <2>1. CASE UNCHANGED <<network_num, network_info, networks, giveup, faulted>> /\ ~Failed
    BY <1>1, <1>7, <2>1 DEF Orderly
  <2>2. CASE Failed
    <3>1. ~giveup /\ ~saved  BY <1>7, <2>2, Zenon DEF Orderly, Failed
    <3>2. ~faulted /\ ~faulted'  BY <1>7, <2>2, Zenon DEF Orderly, Failed, Dropped
    <3>. QED  BY <1>1, <1>7, <3>1, <3>2, <1>4 DEF Orderly, WifiTypeOK
  <2>. QED  BY <1>1, <2>1, <2>2
<1>8. ASSUME Orderly, Failed, ~saved
      PROVE  pending_network_id = network_num - 1 /\ 0 <= network_num - 1
  BY <1>1, <1>8 DEF LastPending, Pending, WifiTypeOK
<1>9. Table'
  <2>. SUFFICES ASSUME Orderly' PROVE /\ 0 <= network_num'
                                      /\ \A i \in NetIds :
                                           /\ InTable(i)' => network_info[i] \in Ssids
                                           /\ networks'[i] = IF InTable(i)' THEN network_info[i]
                                                                            ELSE NoSsid
    BY <1>3 DEF Table
  <2>1. CASE ~Failed
    BY <1>1, <1>7, <2>1 DEF Table, InTable
  <2>2. CASE Failed
    <3>1. /\ pending_network_id = network_num - 1 /\ 0 <= network_num - 1
          /\ network_num' = network_num - 1
      BY <1>7, <1>8, <2>2 DEF Failed
    <3>2. networks' = [i \in NetIds |-> IF i = network_num - 1 THEN NoSsid ELSE networks[i]]
      BY <1>7, <2>2, <3>1 DEF Failed, Dropped, Without, Orderly
    <3>. QED  BY <1>7, <3>1, <3>2 DEF Table, InTable, WifiTypeOK, NetIds, NoId
  <2>. QED  BY <2>1, <2>2
<1>10. LastPending'
  <2>. SUFFICES ASSUME Orderly' PROVE Pending' = 0 /\ ui \notin {"check", "connect", "remove"}
    BY <1>1 DEF LastPending
  <2>. QED  BY <1>1, <1>2, <1>7 DEF LastPending, Pending, WifiTypeOK
<1>. QED  BY <1>4, <1>5, <1>6, <1>9, <1>10


-----------------------------------------------------------------------------
\* No step breaks the inductive invariant.
LEMMA StepWifiIInv == WifiIInv /\ [WifiNext]_wifiVars => WifiIInv'
<1>. SUFFICES ASSUME WifiIInv, [WifiNext]_wifiVars PROVE WifiIInv'  OBVIOUS
<1>1. CASE UNCHANGED wifiVars
  BY <1>1 DEF wifiVars, scanVars, tableVars, connVars, pastVars, WifiIInv, WifiTypeOK,
     ScanOrder,
              FreshOnTheWay, Fresh, Bounded, Table, InTable, LastPending, Orderly, Pending
<1>2. CASE ScanCommand \/ ScanSent \/ ResultsWait \/ ResultsRead \/ ResultsDone
  BY <1>2, Step_ScanCommand, Step_ScanSent, Step_ResultsWait, Step_ResultsRead,
     Step_ResultsDone
<1>3. CASE \/ \E s \in Ssids : AddNetwork(s)
           \/ \E n \in NetIds : ConnectSaved(n)
           \/ \E n \in NetIds \cup {NoId} : RemoveCheck(n)
  BY <1>3, Step_AddNetwork, Step_ConnectSaved, Step_RemoveCheck
<1>4. CASE ConnectCheck \/ Connect \/ RemoveNetwork \/ Disconnect
  BY <1>4, Step_ConnectCheck, Step_Connect, Step_RemoveNetwork, Step_Disconnect
<1>5. CASE ScanStarted \/ ScanResults \/ ScanReceived \/ Connected \/ ConnectedDone \/ OtherEvent
  BY <1>5, Step_ScanStarted, Step_ScanResults, Step_ScanReceived, Step_Connected,
     Step_ConnectedDone, Step_OtherEvent
<1>6. CASE Success \/ Timeout \/ TimeoutEnds \/ SuccessEnds
  BY <1>6, Step_Success, Step_Timeout, Step_TimeoutEnds, Step_SuccessEnds
<1>. QED  BY <1>1, <1>2, <1>3, <1>4, <1>5, <1>6 DEF WifiNext

\* The inductive invariant holds always.
LEMMA WifiIInvHolds == WifiSpec => []WifiIInv
BY InitWifiIInv, StepWifiIInv, PTL DEF WifiSpec

\* Every variable keeps its type, although the number of networks is counted by several
\* threads and may become negative.
THEOREM WifiTypeCorrect == WifiSpec => []WifiTypeOK
BY WifiIInvHolds, PTL DEF WifiIInv

\* wpa_wifi_get_scan_results reads results that were flushed since the last reading, or
\* the flush failed, whatever scans, events and commands come in between.
THEOREM ResultsAlwaysFresh == WifiSpec => []FreshResults
<1>1. WifiIInv => FreshResults
  BY DEF WifiIInv, ScanOrder, FreshOnTheWay, Fresh, FreshResults
<1>. QED  BY <1>1, WifiIInvHolds, PTL

\* The table that wpa_wifi_send_connect_cmd, wpa_wifi_send_remove_network and the
\* connection monitors keep is the one of wpa_supplicant if LIST_NETWORKS gave it whole and
\* without gaps at the start, while no network is added, connected or checked for removal
\* beside a pending connection, requests are carried out and no connection to a saved
\* network fails.
THEOREM TableAlwaysAgrees == WifiSpec => []TableAgrees
<1>1. WifiIInv => TableAgrees
  BY DEF WifiIInv, Table, Orderly, TableAgrees
<1>. QED  BY <1>1, WifiIInvHolds, PTL

-----------------------------------------------------------------------------
(* The automatic shutdown: two threads and one timer.                      *)

ShutdownThreads == {Main, Bt}

\* A thread stops the timer because of what it noted itself.
StopsForCause ==
    /\ doing[Main] = "stop" => usb_state = "CONNECT" \/ pressed
    /\ doing[Bt] = "stop" => bt_state = "CONNECT"

\* A thread that is about to start the timer of a busy device was overtaken.
StartsIfIdle == \A t \in ShutdownThreads : doing[t] = "start" => Idle \/ raced

\* While the device is idle and no key is down, some thread is on the way to the timer.
WillArm ==
    Idle /\ ~pressed => \/ timer # "off"
                        \/ \E t \in ShutdownThreads : doing[t] \in {"check", "start"}

\* While it is busy, some thread is on the way to stop it.  (By variable, since
\* a disconnection of Bluetooth forgets the call but not the cable.)
WillStop ==
    timer = "armed" =>
        \/ raced
        \/ \E t \in ShutdownThreads : doing[t] = "stop"
        \/ /\ usb_state = "DISCONNECT"
           /\ bt_state = "DISCONNECT" \/ uncalled

ShutdownIInv == ShutdownTypeOK /\ StopsForCause /\ StartsIfIdle /\ WillArm /\ WillStop

-----------------------------------------------------------------------------
\* The initial states satisfy the inductive invariant.
LEMMA InitShutdownIInv == ShutdownInit => ShutdownIInv
<1>. SUFFICES ASSUME ShutdownInit PROVE ShutdownIInv  OBVIOUS
<1>. USE ShutdownAssumption DEF ShutdownInit, ShutdownThreads
<1>1. ShutdownTypeOK  BY DEF ShutdownTypeOK, HfpStates, Idle
<1>2. StopsForCause  BY DEF StopsForCause
<1>3. StartsIfIdle  BY DEF StartsIfIdle
<1>4. WillArm  BY DEF WillArm, Idle
<1>5. WillStop  BY DEF WillStop, Idle
<1>. QED  BY <1>1, <1>2, <1>3, <1>4, <1>5 DEF ShutdownIInv

\* A thread that begins something was polling, and does one thing afterwards.
LEMMA DoesOnly ==
    ASSUME ShutdownTypeOK, NEW t \in ShutdownThreads, NEW what \in {"poll", "check", "start", "stop"},
           Do(t, what)
    PROVE  /\ doing' \in [ShutdownThreads -> {"poll", "check", "start", "stop"}]
           /\ doing'[t] = what
           /\ \A u \in ShutdownThreads : u # t => doing'[u] = doing[u]
BY DEF ShutdownTypeOK, Do, ShutdownThreads

\* The cable is taken out: the inductive invariant stays.
LEMMA Step_UsbDisconnect ==
    ASSUME ShutdownIInv, UsbDisconnect PROVE ShutdownIInv'
<1>. USE ShutdownAssumption DEF ShutdownIInv, UsbDisconnect, Begins, ShutdownThreads
<1>1. /\ doing[Main] = "poll" /\ doing'[Main] = "check"
      /\ \A u \in ShutdownThreads : u # Main => doing'[u] = doing[u]
      /\ doing' \in [ShutdownThreads -> {"poll", "check", "start", "stop"}]
  BY DoesOnly
<1>. HIDE DEF Begins
<1>2. ShutdownTypeOK'  BY <1>1 DEF ShutdownTypeOK, HfpStates, Races
<1>3. StopsForCause'  BY <1>1 DEF StopsForCause
<1>4. StartsIfIdle'  BY <1>1 DEF StartsIfIdle, Idle, Races, Other
<1>5. WillArm'  BY <1>1 DEF WillArm, Idle
<1>6. WillStop'  BY <1>1 DEF WillStop, ShutdownTypeOK, Races
<1>. QED  BY <1>2, <1>3, <1>4, <1>5, <1>6

\* The cable is put in: the inductive invariant stays.
LEMMA Step_UsbConnect ==
    ASSUME ShutdownIInv, UsbConnect PROVE ShutdownIInv'
<1>. USE ShutdownAssumption DEF ShutdownIInv, UsbConnect, Begins, ShutdownThreads
<1>1. /\ doing[Main] = "poll" /\ doing'[Main] = "stop"
      /\ \A u \in ShutdownThreads : u # Main => doing'[u] = doing[u]
      /\ doing' \in [ShutdownThreads -> {"poll", "check", "start", "stop"}]
  BY DoesOnly
<1>. HIDE DEF Begins
<1>2. ShutdownTypeOK'  BY <1>1 DEF ShutdownTypeOK, HfpStates, Races
<1>3. StopsForCause'  BY <1>1 DEF StopsForCause
<1>4. StartsIfIdle'  BY <1>1 DEF StartsIfIdle, Idle, Races, Other
<1>5. WillArm'  BY <1>1 DEF WillArm, Idle
<1>6. WillStop'  BY <1>1 DEF WillStop, ShutdownTypeOK, Races
<1>. QED  BY <1>2, <1>3, <1>4, <1>5, <1>6

\* A key is released: the inductive invariant stays.
LEMMA Step_KeyRelease ==
    ASSUME ShutdownIInv, KeyRelease PROVE ShutdownIInv'
<1>. USE ShutdownAssumption DEF ShutdownIInv, KeyRelease, Begins, ShutdownThreads, AfterRelease
<1>1. /\ doing[Main] = "poll" /\ doing'[Main] = "check"
      /\ \A u \in ShutdownThreads : u # Main => doing'[u] = doing[u]
      /\ doing' \in [ShutdownThreads -> {"poll", "check", "start", "stop"}]
  BY DoesOnly
<1>. HIDE DEF Begins
<1>2. ShutdownTypeOK'  BY <1>1 DEF ShutdownTypeOK, HfpStates, Races
<1>3. StopsForCause'  BY <1>1 DEF StopsForCause
<1>4. StartsIfIdle'  BY <1>1 DEF StartsIfIdle, Idle, Races, Other
<1>5. WillArm'  BY <1>1 DEF WillArm, Idle
<1>6. WillStop'  BY <1>1 DEF WillStop, ShutdownTypeOK, Races
<1>. QED  BY <1>2, <1>3, <1>4, <1>5, <1>6

\* A key is pressed: the inductive invariant stays.
LEMMA Step_KeyPress ==
    ASSUME ShutdownIInv, KeyPress PROVE ShutdownIInv'
<1>. USE ShutdownAssumption DEF ShutdownIInv, KeyPress, Begins, ShutdownThreads
<1>1. /\ doing[Main] = "poll" /\ doing'[Main] = "stop"
      /\ \A u \in ShutdownThreads : u # Main => doing'[u] = doing[u]
      /\ doing' \in [ShutdownThreads -> {"poll", "check", "start", "stop"}]
  BY DoesOnly
<1>. HIDE DEF Begins
<1>2. ShutdownTypeOK'  BY <1>1 DEF ShutdownTypeOK, HfpStates, Races
<1>3. StopsForCause'  BY <1>1 DEF StopsForCause
<1>4. StartsIfIdle'  BY <1>1 DEF StartsIfIdle, Idle, Races, Other
<1>5. WillArm'  BY <1>1 DEF WillArm, Idle
<1>6. WillStop'  BY <1>1 DEF WillStop, ShutdownTypeOK, Races
<1>. QED  BY <1>2, <1>3, <1>4, <1>5, <1>6

\* The end of a Bluetooth connection: the inductive invariant stays.
LEMMA Step_BtDisconnect ==
    ASSUME ShutdownIInv, BtDisconnect PROVE ShutdownIInv'
<1>. USE ShutdownAssumption DEF ShutdownIInv, BtDisconnect, Begins, ShutdownThreads
<1>1. /\ doing[Bt] = "poll" /\ doing'[Bt] = "check"
      /\ \A u \in ShutdownThreads : u # Bt => doing'[u] = doing[u]
      /\ doing' \in [ShutdownThreads -> {"poll", "check", "start", "stop"}]
  BY DoesOnly
<1>. HIDE DEF Begins
<1>2. ShutdownTypeOK'  BY <1>1 DEF ShutdownTypeOK, HfpStates, Races
<1>3. StopsForCause'  BY <1>1 DEF StopsForCause
<1>4. StartsIfIdle'  BY <1>1 DEF StartsIfIdle, Idle, Races, Other
<1>5. WillArm'  BY <1>1 DEF WillArm, Idle
<1>6. WillStop'  BY <1>1 DEF WillStop, ShutdownTypeOK, Races
<1>. QED  BY <1>2, <1>3, <1>4, <1>5, <1>6

\* A Bluetooth connection: the inductive invariant stays.
LEMMA Step_BtConnect ==
    ASSUME ShutdownIInv, BtConnect PROVE ShutdownIInv'
<1>. USE ShutdownAssumption DEF ShutdownIInv, BtConnect, Begins, ShutdownThreads
<1>1. /\ doing[Bt] = "poll" /\ doing'[Bt] = "stop"
      /\ \A u \in ShutdownThreads : u # Bt => doing'[u] = doing[u]
      /\ doing' \in [ShutdownThreads -> {"poll", "check", "start", "stop"}]
  BY DoesOnly
<1>. HIDE DEF Begins
<1>2. ShutdownTypeOK'  BY <1>1 DEF ShutdownTypeOK, HfpStates, Races
<1>3. StopsForCause'  BY <1>1 DEF StopsForCause
<1>4. StartsIfIdle'  BY <1>1 DEF StartsIfIdle, Idle, Races, Other
<1>5. WillArm'  BY <1>1 DEF WillArm, Idle
<1>6. WillStop'  BY <1>1 DEF WillStop, ShutdownTypeOK, Races
<1>. QED  BY <1>2, <1>3, <1>4, <1>5, <1>6

\* A call: the inductive invariant stays.
LEMMA Step_BtCall ==
    ASSUME ShutdownIInv, BtCall PROVE ShutdownIInv'
<1>. USE ShutdownAssumption DEF ShutdownIInv, BtCall, Begins, ShutdownThreads
<1>1. /\ doing[Bt] = "poll" /\ doing'[Bt] = "poll"
      /\ \A u \in ShutdownThreads : u # Bt => doing'[u] = doing[u]
      /\ doing' \in [ShutdownThreads -> {"poll", "check", "start", "stop"}]
  BY DoesOnly
<1>. HIDE DEF Begins
<1>2. ShutdownTypeOK'  BY <1>1 DEF ShutdownTypeOK, HfpStates, Races
<1>3. StopsForCause'  BY <1>1 DEF StopsForCause
<1>4. StartsIfIdle'  BY <1>1 DEF StartsIfIdle, Idle, Races, Other
<1>5. WillArm'  BY <1>1 DEF WillArm, Idle
<1>6. WillStop'  BY <1>1 DEF WillStop, ShutdownTypeOK, Races
<1>. QED  BY <1>2, <1>3, <1>4, <1>5, <1>6

\* The check of both states: the inductive invariant stays.
LEMMA Step_Check ==
    ASSUME NEW t \in ShutdownThreads, ShutdownIInv, Check(t) PROVE ShutdownIInv'
<1>. USE ShutdownAssumption DEF ShutdownIInv, Check, ShutdownThreads
<1>1. /\ doing[t] = "check" /\ doing'[t] = (IF Idle THEN "start" ELSE "poll")
      /\ \A u \in ShutdownThreads : u # t => doing'[u] = doing[u]
      /\ doing' \in [ShutdownThreads -> {"poll", "check", "start", "stop"}]
  BY DoesOnly
<1>2. ShutdownTypeOK'  BY <1>1 DEF ShutdownTypeOK
<1>3. StopsForCause'  BY <1>1 DEF StopsForCause
<1>4. StartsIfIdle'  BY <1>1 DEF StartsIfIdle, Idle, Other
<1>5. WillArm'  BY <1>1 DEF WillArm, StopsForCause, Idle, ShutdownTypeOK
<1>6. WillStop'  BY <1>1 DEF WillStop, StartsIfIdle, Idle, ShutdownTypeOK
<1>. QED  BY <1>2, <1>3, <1>4, <1>5, <1>6

\* Starting the timer: the inductive invariant stays.
LEMMA Step_start_timer ==
    ASSUME NEW t \in ShutdownThreads, ShutdownIInv, start_timer(t) PROVE ShutdownIInv'
<1>. USE ShutdownAssumption DEF ShutdownIInv, start_timer, ShutdownThreads
<1>1. /\ doing[t] = "start" /\ doing'[t] = ("poll")
      /\ \A u \in ShutdownThreads : u # t => doing'[u] = doing[u]
      /\ doing' \in [ShutdownThreads -> {"poll", "check", "start", "stop"}]
  BY DoesOnly
<1>2. ShutdownTypeOK'  BY <1>1 DEF ShutdownTypeOK
<1>3. StopsForCause'  BY <1>1 DEF StopsForCause
<1>4. StartsIfIdle'  BY <1>1 DEF StartsIfIdle, Idle, Other
<1>5. WillArm'  BY <1>1 DEF WillArm, StopsForCause, Idle, ShutdownTypeOK
<1>6. WillStop'  BY <1>1 DEF WillStop, StartsIfIdle, Idle, ShutdownTypeOK
<1>. QED  BY <1>2, <1>3, <1>4, <1>5, <1>6

\* Stopping the timer: the inductive invariant stays.
LEMMA Step_stop_timer ==
    ASSUME NEW t \in ShutdownThreads, ShutdownIInv, stop_timer(t) PROVE ShutdownIInv'
<1>. USE ShutdownAssumption DEF ShutdownIInv, stop_timer, ShutdownThreads
<1>1. /\ doing[t] = "stop" /\ doing'[t] = ("poll")
      /\ \A u \in ShutdownThreads : u # t => doing'[u] = doing[u]
      /\ doing' \in [ShutdownThreads -> {"poll", "check", "start", "stop"}]
  BY DoesOnly
<1>2. ShutdownTypeOK'  BY <1>1 DEF ShutdownTypeOK
<1>3. StopsForCause'  BY <1>1 DEF StopsForCause
<1>4. StartsIfIdle'  BY <1>1 DEF StartsIfIdle, Idle, Other
<1>5. WillArm'  BY <1>1 DEF WillArm, StopsForCause, Idle, ShutdownTypeOK
<1>6. WillStop'  BY <1>1 DEF WillStop, StartsIfIdle, Idle, ShutdownTypeOK
<1>. QED  BY <1>2, <1>3, <1>4, <1>5, <1>6

\* The end of the interval: the inductive invariant stays.
LEMMA Step_timer_handle ==
    ASSUME ShutdownIInv, timer_handle PROVE ShutdownIInv'
<1>. USE DEF ShutdownIInv, timer_handle
<1>1. ShutdownTypeOK'  BY DEF ShutdownTypeOK
<1>2. StopsForCause' /\ StartsIfIdle'  BY DEF StopsForCause, StartsIfIdle, Idle
<1>3. WillArm' /\ WillStop'  BY DEF WillArm, WillStop
<1>. QED  BY <1>1, <1>2, <1>3

-----------------------------------------------------------------------------
\* No step breaks the inductive invariant.
LEMMA StepShutdownIInv == ShutdownIInv /\ [ShutdownNext]_shutdownVars => ShutdownIInv'
<1>. SUFFICES ASSUME ShutdownIInv, [ShutdownNext]_shutdownVars PROVE ShutdownIInv'  OBVIOUS
<1>1. CASE UNCHANGED shutdownVars
  BY <1>1 DEF shutdownVars, ShutdownIInv, ShutdownTypeOK, StopsForCause, StartsIfIdle, WillArm,
     WillStop,
              Idle
<1>2. CASE UsbDisconnect \/ UsbConnect \/ KeyRelease \/ KeyPress
  BY <1>2, Step_UsbDisconnect, Step_UsbConnect, Step_KeyRelease, Step_KeyPress
<1>3. CASE BtDisconnect \/ BtConnect \/ BtCall
  BY <1>3, Step_BtDisconnect, Step_BtConnect, Step_BtCall
<1>4. CASE \E t \in {Main, Bt} : Check(t) \/ start_timer(t) \/ stop_timer(t)
  BY <1>4, Step_Check, Step_start_timer, Step_stop_timer DEF ShutdownThreads
<1>5. CASE timer_handle
  BY <1>5, Step_timer_handle
<1>. QED  BY <1>1, <1>2, <1>3, <1>4, <1>5 DEF ShutdownNext

\* The inductive invariant holds always.
LEMMA ShutdownIInvHolds == ShutdownSpec => []ShutdownIInv
BY InitShutdownIInv, StepShutdownIInv, PTL DEF ShutdownSpec

\* Where the threads have settled, it is what must hold.
LEMMA ShutdownIInvAgrees == ShutdownIInv => TimerAgrees
<1>. SUFFICES ASSUME ShutdownIInv, Settled, timer # "fired"
              PROVE  /\ Idle /\ ~pressed => timer = "armed"
                     /\ timer = "armed" => Idle \/ uncalled \/ raced
  BY DEF TimerAgrees
<1>1. \A t \in ShutdownThreads : doing[t] = "poll"  BY DEF Settled, ShutdownThreads
<1>2. Idle /\ ~pressed => timer = "armed"
  BY <1>1 DEF ShutdownIInv, WillArm, ShutdownTypeOK
<1>3. timer = "armed" => Idle \/ uncalled \/ raced
  BY <1>1 DEF ShutdownIInv, WillStop, Idle
<1>. QED  BY <1>2, <1>3

\* Every variable keeps its type: the timer, and what either thread is about to do.
THEOREM ShutdownTypeCorrect == ShutdownSpec => []ShutdownTypeOK
BY ShutdownIInvHolds, PTL DEF ShutdownIInv

\* check_to_start_timer, start_timer and stop_timer run in two threads without a lock; yet
\* an idle device goes down, and one that does was idle, or one of the two known gaps
\* was there.
THEOREM TimerAlwaysAgrees == ShutdownSpec => []TimerAgrees
BY ShutdownIInvHolds, ShutdownIInvAgrees, PTL

-----------------------------------------------------------------------------
(* The keys: what is true of the events and of the queue.                  *)

\* The events are in the order of the presses; those of a key that are up come first.
EventOrder ==
    /\ \A i \in 1 .. Len(mKeyEventVec) : mKeyEventVec[i].press <= key_down_count
    /\ \A i, j \in 1 .. Len(mKeyEventVec) :
          i < j => mKeyEventVec[i].press < mKeyEventVec[j].press
    /\ \A i, j \in 1 .. Len(mKeyEventVec) :
          /\ mKeyEventVec[i].keyState = 0 /\ mKeyEventVec[j].keyState = 1
          /\ mKeyEventVec[j].keyCode = mKeyEventVec[i].keyCode
          => i < j

\* An event that is up is not reported any more while it lasts.
EventStates ==
    \A i \in 1 .. Len(mKeyEventVec) :
       mKeyEventVec[i].keyState = 0 => ~mKeyEventVec[i].curlongPress

\* The last press, as long as no key was released since, has an event that is down.
LastDown ==
    /\ key_down_count <= MaxPresses
    /\ \A n \in Presses : n <= key_down_count => keyOf[n] \in Keycodes
    /\ \A n \in Presses : keytimer[n] # "none" => n <= key_down_count
    /\ key_last_down # NoKey =>
          \E i \in 1 .. Len(mKeyEventVec) :
             /\ mKeyEventVec[i].press = key_down_count
             /\ mKeyEventVec[i].keyCode = key_last_down /\ mKeyEventVec[i].keyState = 1

\* What the input thread has in its hands.
InHand ==
    /\ input = "read" => ~released.register
    /\ input = "enqueue" => released.register
    /\ released.register => released.key \in Keycodes /\ released.press \in Presses

\* A press of k that is queued or about to be, and one that is up.
HasEntry(k, n) ==
    \/ \E i \in 1 .. Len(key_queue) : key_queue[i].key = k /\ key_queue[i].press = n
    \/ released.register /\ released.key = k /\ released.press = n
HasUp(k, n) ==
    \E i \in 1 .. Len(mKeyEventVec) : /\ mKeyEventVec[i].keyCode = k
                                      /\ mKeyEventVec[i].keyState = 0
                                      /\ mKeyEventVec[i].press = n

QueueOrder ==
    /\ \A i, j \in 1 .. Len(key_queue) :
          i < j /\ key_queue[i].key = key_queue[j].key => key_queue[i].press < key_queue[j].press
    /\ released.register =>
          \A i \in 1 .. Len(key_queue) :
             key_queue[i].key = released.key => key_queue[i].press < released.press

\* Without a dropped release or a repeated key, entries and events go together.
InStep ==
    orphaned \/ repeated \/ (QueueOrder /\ \A k \in Keycodes, n \in Presses :
                                              HasEntry(k, n) <=> HasUp(k, n))

KeysIInv == KeysTypeOK /\ EventOrder /\ EventStates /\ LastDown /\ InHand /\ InStep

-----------------------------------------------------------------------------
(* Facts about the operators of the keys.                                  *)

\* A set of places that is not empty has a first one, and Min finds it.
LEMMA MinOf ==
    ASSUME NEW m \in Nat, NEW K, K \subseteq 1 .. m, K # {}
    PROVE  Min(K) \in K /\ \A y \in K : Min(K) <= y
<1>. DEFINE T == {1 .. k : k \in K}
<1>1. IsFiniteSet(1 .. m)  BY FS_Interval
<1>2. IsWellFoundedOn(StrictSubsetOrdering(1 .. m), FiniteSubsetsOf(1 .. m))
  BY <1>1, FS_StrictSubsetOrderingWellFounded
<1>3. T \subseteq FiniteSubsetsOf(1 .. m)  BY FS_Interval DEF FiniteSubsetsOf
<1>4. PICK x \in T : \A y \in T : <<y, x>> \notin StrictSubsetOrdering(1 .. m)
  <2>1. T # {}  OBVIOUS
  <2>. HIDE DEF T
  <2>. QED  BY <1>2, <1>3, <2>1, WFMin, Zenon
<1>5. PICK k \in K : x = 1 .. k  OBVIOUS
<1>6. \A j \in K : k <= j
  <2>. SUFFICES ASSUME NEW j \in K, j < k PROVE FALSE  OBVIOUS
  <2>1. 1 .. j \subseteq 1 .. k /\ 1 .. j # 1 .. k  OBVIOUS
  <2>2. <<1 .. j, 1 .. k>> \in StrictSubsetOrdering(1 .. m)
    BY <2>1 DEF StrictSubsetOrdering
  <2>. QED  BY <2>2, <1>4, <1>5
<1>. QED  BY <1>6 DEF Min

\* The sequence without its element at i.
LEMMA RemovedAt ==
    ASSUME NEW S, NEW s \in Seq(S), NEW i \in 1 .. Len(s)
    PROVE  /\ RemoveAt(s, i) \in Seq(S) /\ Len(RemoveAt(s, i)) = Len(s) - 1
           /\ \A j \in 1 .. Len(s) - 1 :
                 RemoveAt(s, i)[j] = IF j < i THEN s[j] ELSE s[j + 1]
<1>. DEFINE L == Len(s)
            a == SubSeq(s, 1, i - 1)
            b == SubSeq(s, i + 1, L)
<1>1. L \in Nat /\ i \in 1 .. L  OBVIOUS
<1>2. /\ a \in Seq(S) /\ Len(a) = i - 1 /\ \A j \in 1 .. i - 1 : a[j] = s[j]
      /\ b \in Seq(S) /\ Len(b) = L - i /\ \A j \in 1 .. L - i : b[j] = s[i + j]
  <2>1. a \in Seq(S) /\ Len(a) = i - 1 /\ \A j \in 1 .. i - 1 : a[j] = s[j]
    OBVIOUS
  <2>2. b \in Seq(S) /\ Len(b) = L - i /\ \A j \in 1 .. L - i : b[j] = s[i + j]
    OBVIOUS
  <2>. QED  BY <2>1, <2>2
<1>. HIDE DEF a, b, L
<1>3. /\ a \o b \in Seq(S) /\ Len(a \o b) = Len(a) + Len(b)
      /\ \A j \in 1 .. Len(a) + Len(b) :
            (a \o b)[j] = IF j <= Len(a) THEN a[j] ELSE b[j - Len(a)]
  BY <1>2, ConcatProperties
<1>4. ASSUME NEW j \in 1 .. L - 1 PROVE (a \o b)[j] = IF j < i THEN s[j] ELSE s[j + 1]
  <2>1. CASE j < i  BY <1>1, <1>2, <1>3, <2>1
  <2>2. CASE ~(j < i)
    <3>1. j - (i - 1) \in 1 .. L - i /\ i + (j - (i - 1)) = j + 1 /\ ~(j <= i - 1)
      BY <1>1, <2>2
    <3>2. j \in 1 .. Len(a) + Len(b)  BY <1>1, <1>2
    <3>3. (a \o b)[j] = b[j - (i - 1)]  BY <1>2, <1>3, <3>1, <3>2
    <3>. QED  BY <1>2, <2>2, <3>1, <3>3
  <2>. QED  BY <2>1, <2>2
<1>5. RemoveAt(s, i) = a \o b  BY DEF RemoveAt, a, b, L
<1>6. Len(a) + Len(b) = L - 1  BY <1>1, <1>2
<1>. QED  BY <1>3, <1>4, <1>5, <1>6 DEF L

\* A queue with an entry that is about to be appended.
LEMMA QueueWith ==
    ASSUME NEW S, NEW q \in Seq(S), NEW b \in BOOLEAN, NEW e, b => e \in S
    PROVE  LET z == q \o (IF b THEN <<e>> ELSE <<>>) IN
           /\ Len(q) \in Nat /\ Len(z) = Len(q) + (IF b THEN 1 ELSE 0)
           /\ \A i \in 1 .. Len(q) : z[i] = q[i]
           /\ b => z[Len(q) + 1] = e
<1>1. Len(q) \in Nat /\ <<>> \in Seq(S)  OBVIOUS
<1>2. CASE b
  <2>1. <<e>> \in Seq(S) /\ Len(<<e>>) = 1 /\ <<e>>[1] = e  BY <1>2
  <2>2. /\ Len(q \o <<e>>) = Len(q) + 1
        /\ \A i \in 1 .. Len(q) + 1 : (q \o <<e>>)[i] = IF i <= Len(q) THEN q[i]
                                                       ELSE <<e>>[i - Len(q)]
    BY <1>1, <2>1, ConcatProperties
  <2>3. \A i \in 1 .. Len(q) : (q \o <<e>>)[i] = q[i]  BY <1>1, <2>2
  <2>4. (q \o <<e>>)[Len(q) + 1] = e
    <3>1. Len(q) + 1 \in 1 .. Len(q) + 1 /\ ~(Len(q) + 1 <= Len(q))
          /\ (Len(q) + 1) - Len(q) = 1
      BY <1>1
    <3>. QED  BY <2>1, <2>2, <3>1
  <2>. QED  BY <1>1, <1>2, <2>2, <2>3, <2>4
<1>3. CASE ~b
  <2>1. q \o <<>> = q  BY ConcatEmptySeq
  <2>. QED  BY <1>1, <1>3, <2>1
<1>. QED  BY <1>2, <1>3

\* The fields of the entries and of the events.
LEMMA EntryTypes ==
    ASSUME KeysTypeOK
    PROVE  /\ Len(key_queue) \in Nat
           /\ \A i \in 1 .. Len(key_queue) :
                 key_queue[i].key \in Keycodes /\ key_queue[i].press \in Presses
<1>. DEFINE S == [key : Keycodes, press : Presses]
<1>1. key_queue \in Seq(S)  BY DEF KeysTypeOK
<1>. HIDE DEF S
<1>2. Len(key_queue) \in Nat /\ \A i \in 1 .. Len(key_queue) : key_queue[i] \in S  BY <1>1
<1>. QED  BY <1>2 DEF S

LEMMA EventTypes ==
    ASSUME KeysTypeOK
    PROVE  /\ mKeyEventVec \in Seq(KeyEvents) /\ Len(mKeyEventVec) \in Nat
           /\ \A i \in 1 .. Len(mKeyEventVec) :
                 /\ mKeyEventVec[i] \in KeyEvents
                 /\ mKeyEventVec[i].press \in Presses /\ mKeyEventVec[i].press \in Nat
                 /\ mKeyEventVec[i].keyCode \in Keycodes /\ mKeyEventVec[i].keyState \in {0, 1}
                 /\ mKeyEventVec[i].longPress \in BOOLEAN
                 /\ mKeyEventVec[i].curlongPress \in BOOLEAN
<1>1. mKeyEventVec \in Seq(KeyEvents)  BY DEF KeysTypeOK
<1>2. \A i \in 1 .. Len(mKeyEventVec) : mKeyEventVec[i] \in KeyEvents  BY <1>1
<1>. QED  BY <1>1, <1>2, KeysAssumption DEF KeyEvents, Presses

\* The presses queued, and their order, in terms of the queue and what is in hand.
LEMMA EntriesNow ==
    ASSUME KeysTypeOK, InHand
    PROVE  /\ \A k, n : n \in PressesQueued(k) <=> HasEntry(k, n)
           /\ InOrder <=> QueueOrder
<1>. DEFINE S == [key : Keycodes, press : Presses]
            e == [key |-> released.key, press |-> released.press]
            L == Len(key_queue)
<1>1. key_queue \in Seq(S) /\ released.register \in BOOLEAN /\ (released.register => e \in S)
  BY DEF KeysTypeOK, InHand
<1>2. /\ L \in Nat /\ Len(Entries) = L + (IF released.register THEN 1 ELSE 0)
      /\ \A i \in 1 .. L : Entries[i] = key_queue[i]
      /\ released.register => Entries[L + 1] = e
  <2>. HIDE DEF S, e
  <2>. QED  BY <1>1, QueueWith DEF Entries, e
<1>3. e.key = released.key /\ e.press = released.press  OBVIOUS
<1>4. \A i \in 1 .. Len(Entries) : i \in 1 .. L \/ (released.register /\ i = L + 1)
  BY <1>2
<1>5. 1 .. L \subseteq 1 .. Len(Entries) /\ (released.register => L + 1 \in 1 .. Len(Entries))
  BY <1>2
<1>. HIDE DEF S, e, L
<1>6. ASSUME NEW k, NEW n PROVE n \in PressesQueued(k) <=> HasEntry(k, n)
  <2>1. n \in PressesQueued(k) <=> \E i \in 1 .. Len(Entries) :
                                       Entries[i].key = k /\ Entries[i].press = n
    BY DEF PressesQueued
  <2>. QED  BY <1>2, <1>3, <1>4, <1>5, <2>1 DEF HasEntry, L
<1>7. InOrder <=> QueueOrder
  <2>1. \A i \in 1 .. L : i < L + 1 /\ ~(L + 1 < i)  BY <1>2
  <2>2. ~(L + 1 < L + 1)  BY <1>2
  <2>3. InOrder <=> \A i, j \in 1 .. Len(Entries) :
            i < j /\ Entries[i].key = Entries[j].key => Entries[i].press < Entries[j].press
    BY DEF InOrder
  <2>4. QueueOrder <=>
           /\ \A i, j \in 1 .. L : i < j /\ key_queue[i].key = key_queue[j].key
                                   => key_queue[i].press < key_queue[j].press
           /\ released.register => \A i \in 1 .. L :
                 key_queue[i].key = released.key => key_queue[i].press < released.press
    BY DEF QueueOrder, L
  <2>. QED  BY ZenonT(60), <1>2, <1>3, <1>4, <1>5, <2>1, <2>2, <2>3, <2>4
<1>. QED  BY <1>6, <1>7

\* So what is in step is what PressesKept says.
LEMMA KeysKept == KeysIInv => PressesKept
<1>. SUFFICES ASSUME KeysIInv PROVE PressesKept  OBVIOUS
<1>. USE DEF KeysIInv
<1>1. ASSUME NEW n \in Presses, keytimer[n] # "none", StillDown(n)
      PROVE  \E i \in 1 .. Len(mKeyEventVec) :
                mKeyEventVec[i].press = n /\ mKeyEventVec[i].keyState = 1
  <2>1. n <= key_down_count  BY <1>1 DEF LastDown
  <2>2. keyOf[n] \in Keycodes  BY <2>1 DEF LastDown
  <2>3. key_last_down = keyOf[n] /\ key_down_count = n  BY <1>1 DEF StillDown
  <2>. QED  BY <2>2, <2>3, KeysAssumption DEF LastDown
<1>2. \A i, j \in 1 .. Len(mKeyEventVec) :
         i < j => mKeyEventVec[i].press < mKeyEventVec[j].press
  BY DEF EventOrder
<1>3. orphaned \/ repeated \/ (InOrder /\ \A k \in Keycodes : PressesQueued(k) = PressesUp(k))
  <2>. SUFFICES ASSUME ~orphaned, ~repeated
                PROVE  InOrder /\ \A k \in Keycodes : PressesQueued(k) = PressesUp(k)
    OBVIOUS
  <2>1. QueueOrder /\ \A k \in Keycodes, n \in Presses : HasEntry(k, n) <=> HasUp(k, n)
    BY DEF InStep
  <2>2. ASSUME NEW k \in Keycodes PROVE PressesQueued(k) = PressesUp(k)
    <3>1. \A n : n \in PressesUp(k) <=> HasUp(k, n)  BY DEF PressesUp, HasUp
    <3>2. \A n : n \in PressesQueued(k) <=> HasEntry(k, n)  BY EntriesNow
    <3>3. ASSUME NEW n, HasUp(k, n) PROVE n \in Presses
      <4>. QED  BY <3>3, EventTypes DEF HasUp
    <3>4. ASSUME NEW n, HasEntry(k, n) PROVE n \in Presses
      <4>. QED  BY <3>4, EntryTypes DEF HasEntry, InHand
    <3>. QED  BY <2>1, <3>1, <3>2, <3>3, <3>4
  <2>. QED  BY <2>1, <2>2, EntriesNow
<1>. QED  BY <1>1, <1>2, <1>3 DEF PressesKept

\* The event of k that KeyUp finds, if any, is the first that is down.
LEMMA FirstDown ==
    ASSUME KeysTypeOK, NEW k
    PROVE  LET i == DownEvent(k)
               Down(j) == mKeyEventVec[j].keyCode = k /\ mKeyEventVec[j].keyState = 1
           IN
           \/ i = 0 /\ \A j \in 1 .. Len(mKeyEventVec) : ~Down(j)
           \/ /\ i \in 1 .. Len(mKeyEventVec) /\ Down(i)
              /\ \A j \in 1 .. Len(mKeyEventVec) : Down(j) => i <= j
<1>. DEFINE K == {i \in 1 .. Len(mKeyEventVec) :
                    mKeyEventVec[i].keyCode = k /\ mKeyEventVec[i].keyState = 1}
            i == DownEvent(k)
<1>1. Len(mKeyEventVec) \in Nat /\ K \subseteq 1 .. Len(mKeyEventVec)  BY DEF KeysTypeOK
<1>2. i = IF K # {} THEN Min(K) ELSE 0  BY DEF DownEvent, SelectInSeq
<1>3. K # {} => Min(K) \in K /\ \A y \in K : Min(K) <= y
  <2>. HIDE DEF K
  <2>. QED  BY <1>1, MinOf
<1>. HIDE DEF i
<1>4. CASE K = {}  BY <1>2, <1>4 DEF i
<1>5. CASE K # {}  BY <1>2, <1>3, <1>5 DEF i
<1>. QED  BY <1>4, <1>5

\* The event of k that WaitKey finds, if any, is the first that is up or reported.
LEMMA FirstReported ==
    ASSUME KeysTypeOK, NEW k
    PROVE  LET i == SelectInSeq(mKeyEventVec, LAMBDA e : Reported(e, k)) IN
           \/ i = 0 /\ \A j \in 1 .. Len(mKeyEventVec) : ~Reported(mKeyEventVec[j], k)
           \/ /\ i \in 1 .. Len(mKeyEventVec) /\ Reported(mKeyEventVec[i], k)
              /\ \A j \in 1 .. Len(mKeyEventVec) : Reported(mKeyEventVec[j], k) => i <= j
<1>. DEFINE K == {i \in 1 .. Len(mKeyEventVec) : Reported(mKeyEventVec[i], k)}
            i == SelectInSeq(mKeyEventVec, LAMBDA e : Reported(e, k))
<1>1. Len(mKeyEventVec) \in Nat /\ K \subseteq 1 .. Len(mKeyEventVec)  BY DEF KeysTypeOK
<1>2. i = IF K # {} THEN Min(K) ELSE 0  BY DEF SelectInSeq
<1>3. K # {} => Min(K) \in K /\ \A y \in K : Min(K) <= y
  <2>. HIDE DEF K
  <2>. QED  BY <1>1, MinOf
<1>. HIDE DEF i
<1>4. CASE K = {}  BY <1>2, <1>4 DEF i
<1>5. CASE K # {}  BY <1>2, <1>3, <1>5 DEF i
<1>. QED  BY <1>4, <1>5

-----------------------------------------------------------------------------
(* The keys: one lemma for each action.                                    *)

\* A press gets the next number and an event at the end that is down.
LEMMA Step_KeyDown ==
    ASSUME KeysIInv, NEW k \in Keycodes, KeyDown(k) PROVE KeysIInv'
<1>. USE KeysAssumption DEF KeysIInv
<1>. DEFINE n == key_down_count + 1
            L == Len(mKeyEventVec)
            e == [press |-> n, keyCode |-> k, keyState |-> 1,
                  longPress |-> FALSE, curlongPress |-> FALSE]
<1>0. /\ input = "read" /\ n \in Presses
      /\ mKeyEventVec' = Append(mKeyEventVec, e)
      /\ key_down_count' = n /\ key_last_down' = k
      /\ keytimer' = [keytimer EXCEPT ![n] = "sleep"] /\ keyOf' = [keyOf EXCEPT ![n] = k]
      /\ input' = "note" /\ released' = [NoRelease EXCEPT !.key = k]
      /\ UNCHANGED <<key_queue, last_key, orphaned, repeated>>
  BY DEF KeyDown
<1>1. /\ e \in KeyEvents /\ e.press = n /\ e.keyCode = k /\ e.keyState = 1 /\ ~e.curlongPress
      /\ key_down_count \in Nat
  BY <1>0 DEF KeyEvents, KeysTypeOK
<1>2. /\ released'.register = FALSE
      /\ released' \in [press : Presses \cup {0}, key : Keycodes \cup {NoKey},
                        register : BOOLEAN, flag : BOOLEAN]
  BY <1>0 DEF NoRelease
<1>. HIDE DEF e
<1>3. /\ mKeyEventVec' \in Seq(KeyEvents) /\ L \in Nat /\ Len(mKeyEventVec') = L + 1
      /\ mKeyEventVec'[L + 1] = e
      /\ \A i \in 1 .. L : mKeyEventVec'[i] = mKeyEventVec[i]
  BY <1>0, <1>1, EventTypes
<1>4. \A i \in 1 .. L + 1 : i \in 1 .. L \/ i = L + 1  BY <1>3
<1>5. \A i \in 1 .. L : i < L + 1 /\ i # L + 1 /\ ~(L + 1 < i)  BY <1>3
<1>7. \A i \in 1 .. L : mKeyEventVec[i].press < n
  <2>. SUFFICES ASSUME NEW i \in 1 .. L PROVE mKeyEventVec[i].press < n  OBVIOUS
  <2>1. mKeyEventVec[i].press <= key_down_count /\ mKeyEventVec[i].press \in Nat
    BY EventTypes DEF EventOrder
  <2>. QED  BY <2>1, <1>1
<1>. HIDE DEF L
<1>8. KeysTypeOK'
  <2>1. n \in Nat  BY <1>1
  <2>. HIDE DEF n
  <2>. QED  BY <1>0, <1>2, <1>3, <2>1 DEF KeysTypeOK
<1>9. EventOrder'
  <2>1. \A i \in 1 .. L + 1 : mKeyEventVec'[i].press <= n
    <3>1. \A i \in 1 .. L : mKeyEventVec[i].press \in Nat  BY EventTypes DEF L
    <3>. QED  BY <1>1, <1>3, <1>4, <1>7, <3>1
  <2>. HIDE DEF n
  <2>2. \A i, j \in 1 .. L + 1 : i < j => mKeyEventVec'[i].press < mKeyEventVec'[j].press
    <3>. SUFFICES ASSUME NEW i \in 1 .. L + 1, NEW j \in 1 .. L + 1, i < j
                  PROVE  mKeyEventVec'[i].press < mKeyEventVec'[j].press
      OBVIOUS
    <3>1. i \in 1 .. L  BY <1>3
    <3>2. CASE j \in 1 .. L  BY <1>3, <3>1, <3>2 DEF EventOrder, L
    <3>3. CASE j = L + 1  BY <1>1, <1>3, <1>7, <3>1, <3>3
    <3>. QED  BY <1>4, <3>2, <3>3
  <2>3. ASSUME NEW i \in 1 .. L + 1, NEW j \in 1 .. L + 1,
               mKeyEventVec'[i].keyState = 0, mKeyEventVec'[j].keyState = 1,
               mKeyEventVec'[j].keyCode = mKeyEventVec'[i].keyCode
        PROVE  i < j
    <3>1. i \in 1 .. L  BY <1>1, <1>3, <1>4, <2>3
    <3>2. CASE j \in 1 .. L  BY <1>3, <2>3, <3>1, <3>2 DEF EventOrder, L
    <3>3. CASE j = L + 1  BY <1>5, <3>1, <3>3
    <3>. QED  BY <1>4, <3>2, <3>3
  <2>. QED  BY <1>0, <1>3, <2>1, <2>2, <2>3 DEF EventOrder
<1>10. EventStates'
  <2>1. ASSUME NEW i \in 1 .. L + 1, mKeyEventVec'[i].keyState = 0
        PROVE  ~mKeyEventVec'[i].curlongPress
    BY <2>1, <1>1, <1>3, <1>4 DEF EventStates, L
  <2>. QED  BY <1>3, <2>1 DEF EventStates
<1>11. LastDown'
  <2>1. n \in 1 .. MaxPresses /\ n <= MaxPresses  BY <1>0 DEF Presses
  <2>2. ASSUME NEW m \in Presses, m <= n PROVE keyOf'[m] \in Keycodes
    <3>1. CASE m = n  BY <1>0, <3>1 DEF KeysTypeOK
    <3>2. CASE m # n
      <4>1. m <= key_down_count  BY <1>1, <2>2, <3>2 DEF Presses
      <4>2. keyOf'[m] = keyOf[m]  BY <1>0, <3>2 DEF KeysTypeOK
      <4>. QED  BY <4>1, <4>2 DEF LastDown
    <3>. QED  BY <3>1, <3>2
  <2>3. ASSUME NEW m \in Presses, keytimer'[m] # "none" PROVE m <= n
    <3>1. CASE m = n  BY <2>1, <3>1
    <3>2. CASE m # n
      <4>1. keytimer'[m] = keytimer[m]  BY <1>0, <3>2 DEF KeysTypeOK
      <4>2. m <= key_down_count  BY <2>3, <4>1 DEF LastDown
      <4>. QED  BY <1>1, <4>2 DEF Presses
    <3>. QED  BY <3>1, <3>2
  <2>4. L + 1 \in 1 .. Len(mKeyEventVec')  BY <1>3
  <2>. QED  BY <1>0, <1>1, <1>3, <2>1, <2>2, <2>3, <2>4 DEF LastDown
<1>12. InHand'  BY <1>0, <1>2 DEF InHand
<1>13. InStep'
  <2>1. ~released.register  BY <1>0 DEF InHand
  <2>2. QueueOrder => QueueOrder'  BY <1>0, <1>2 DEF QueueOrder
  <2>3. \A l, m : HasEntry(l, m)' <=> HasEntry(l, m)  BY <1>0, <1>2, <2>1 DEF HasEntry
  <2>4. ASSUME NEW l, NEW m PROVE HasUp(l, m)' <=> HasUp(l, m)
    <3>1. 1 .. L \subseteq 1 .. L + 1  BY <1>3
    <3>. QED  BY <1>1, <1>3, <1>4, <3>1 DEF HasUp, L
  <2>. QED  BY <1>0, <2>2, <2>3, <2>4 DEF InStep
<1>. QED  BY <1>8, <1>9, <1>10, <1>11, <1>12, <1>13

\* A release without an event that is down changes no event, and is not taken in hand.
LEMMA Step_KeyUpAlone ==
    ASSUME KeysIInv, NEW k \in Keycodes, KeyUp(k), DownEvent(k) = 0 PROVE KeysIInv'
<1>. USE KeysAssumption DEF KeysIInv
<1>1. key_last_down # k
  <2>1. \A j \in 1 .. Len(mKeyEventVec) :
           ~(mKeyEventVec[j].keyCode = k /\ mKeyEventVec[j].keyState = 1)
    BY FirstDown
  <2>. QED  BY <2>1 DEF LastDown
<1>2. /\ input = "read" /\ mKeyEventVec' = mKeyEventVec
      /\ released' = [NoRelease EXCEPT !.key = k, !.register = FALSE]
      /\ key_last_down' = NoKey /\ orphaned' = orphaned /\ input' = "note"
      /\ UNCHANGED <<key_queue, key_down_count, last_key, keytimer, keyOf, repeated>>
  <2>1. orphaned \in BOOLEAN  BY DEF KeysTypeOK
  <2>. QED  BY <1>1, <2>1 DEF KeyUp
<1>3. /\ released'.register = FALSE
      /\ released' \in [press : Presses \cup {0}, key : Keycodes \cup {NoKey},
                        register : BOOLEAN, flag : BOOLEAN]
  BY <1>2 DEF NoRelease
<1>4. KeysTypeOK'  BY <1>2, <1>3 DEF KeysTypeOK
<1>5. EventOrder' /\ EventStates' /\ LastDown'  BY <1>2 DEF EventOrder, EventStates, LastDown
<1>6. InHand'  BY <1>2, <1>3 DEF InHand
<1>7. InStep'
  <2>1. ~released.register  BY <1>2 DEF InHand
  <2>2. QueueOrder => QueueOrder'  BY <1>2, <1>3 DEF QueueOrder
  <2>3. \A l, m : HasEntry(l, m)' <=> HasEntry(l, m)  BY <1>2, <1>3, <2>1 DEF HasEntry
  <2>4. \A l, m : HasUp(l, m)' <=> HasUp(l, m)  BY <1>2 DEF HasUp
  <2>. QED  BY <1>2, <2>2, <2>3, <2>4 DEF InStep
<1>. QED  BY <1>4, <1>5, <1>6, <1>7

\* A repeat only notes its key.
LEMMA Step_KeyRepeat ==
    ASSUME KeysIInv, NEW k \in Keycodes, KeyRepeat(k) PROVE KeysIInv'
<1>. USE KeysAssumption DEF KeysIInv
<1>1. /\ input = "read" /\ input' = "note" /\ released' = [NoRelease EXCEPT !.key = k]
      /\ UNCHANGED <<key_queue, key_last_down, key_down_count, last_key, mKeyEventVec,
                     keytimer, keyOf, orphaned, repeated>>
  BY DEF KeyRepeat
<1>2. /\ released'.register = FALSE
      /\ released' \in [press : Presses \cup {0}, key : Keycodes \cup {NoKey},
                        register : BOOLEAN, flag : BOOLEAN]
  BY <1>1 DEF NoRelease
<1>3. KeysTypeOK'  BY <1>1, <1>2 DEF KeysTypeOK
<1>4. EventOrder' /\ EventStates' /\ LastDown'  BY <1>1 DEF EventOrder, EventStates, LastDown
<1>5. InHand'  BY <1>1, <1>2 DEF InHand
<1>6. InStep'
  <2>1. ~released.register  BY <1>1 DEF InHand
  <2>2. QueueOrder => QueueOrder'  BY <1>1, <1>2 DEF QueueOrder
  <2>3. \A l, m : HasEntry(l, m)' <=> HasEntry(l, m)  BY <1>1, <1>2, <2>1 DEF HasEntry
  <2>4. \A l, m : HasUp(l, m)' <=> HasUp(l, m)  BY <1>1 DEF HasUp
  <2>. QED  BY <1>1, <2>2, <2>3, <2>4 DEF InStep
<1>. QED  BY <1>3, <1>4, <1>5, <1>6

\* A release lets its event be up, the first that is down, and takes it in hand if its key
\* is the last that went down.
LEMMA Step_KeyUp ==
    ASSUME KeysIInv, NEW k \in Keycodes, KeyUp(k), DownEvent(k) # 0 PROVE KeysIInv'
<1>. USE KeysAssumption DEF KeysIInv
<1>. DEFINE i == DownEvent(k)
            e == mKeyEventVec[i]
            L == Len(mKeyEventVec)
            known == key_last_down = k
<1>0. /\ input = "read"
      /\ mKeyEventVec' = [mKeyEventVec EXCEPT ![i].keyState = 0, ![i].curlongPress = FALSE]
      /\ released' = [press |-> e.press, key |-> k, register |-> known,
                      flag |-> e.longPress \/ e.curlongPress]
      /\ key_last_down' = NoKey
      /\ orphaned' = (orphaned \/ ~known) /\ orphaned \in BOOLEAN
      /\ input' = "note"
      /\ UNCHANGED <<key_queue, key_down_count, last_key, keytimer, keyOf, repeated>>
  BY DEF KeyUp, KeysTypeOK
<1>1. i \in 1 .. L /\ e.keyCode = k /\ e.keyState = 1
      /\ \A j \in 1 .. L : mKeyEventVec[j].keyCode = k /\ mKeyEventVec[j].keyState = 1 => i <= j
  BY FirstDown
<1>2. /\ e \in KeyEvents /\ e.press \in Presses /\ e.longPress \in BOOLEAN
      /\ e.curlongPress \in BOOLEAN /\ L \in Nat
  BY <1>1, EventTypes
<1>3. /\ released'.press = e.press /\ released'.key = k /\ released'.register = known
      /\ released' \in [press : Presses \cup {0}, key : Keycodes \cup {NoKey},
                        register : BOOLEAN, flag : BOOLEAN]
  BY <1>0, <1>2
<1>. HIDE DEF i, known
<1>4. /\ mKeyEventVec' \in Seq(KeyEvents) /\ Len(mKeyEventVec') = L
      /\ \A j \in 1 .. L :
            /\ mKeyEventVec'[j].press = mKeyEventVec[j].press
            /\ mKeyEventVec'[j].keyCode = mKeyEventVec[j].keyCode
            /\ j # i => mKeyEventVec'[j] = mKeyEventVec[j]
      /\ mKeyEventVec'[i].keyState = 0 /\ ~mKeyEventVec'[i].curlongPress
  <2>. DEFINE f == [e EXCEPT !.keyState = 0, !.curlongPress = FALSE]
  <2>1. f \in KeyEvents /\ f.press = e.press /\ f.keyCode = e.keyCode /\ f.keyState = 0
        /\ ~f.curlongPress
    BY <1>2 DEF KeyEvents
  <2>2. mKeyEventVec \in Seq(KeyEvents)  BY EventTypes
  <2>3. mKeyEventVec' = [mKeyEventVec EXCEPT ![i] = f]  BY <1>0, <1>1, <2>2
  <2>. HIDE DEF f, e
  <2>4. mKeyEventVec' \in Seq(KeyEvents) /\ Len(mKeyEventVec') = L /\ mKeyEventVec'[i] = f
        /\ \A j \in 1 .. L : j # i => mKeyEventVec'[j] = mKeyEventVec[j]
    BY <1>1, <2>1, <2>2, <2>3
  <2>. QED  BY <1>1, <2>1, <2>4 DEF e
<1>. HIDE DEF L
<1>7. KeysTypeOK'  BY <1>0, <1>3, <1>4 DEF KeysTypeOK
<1>8. EventOrder'
  <2>. SUFFICES ASSUME NEW a \in 1 .. L, NEW b \in 1 .. L,
                       mKeyEventVec'[a].keyState = 0, mKeyEventVec'[b].keyState = 1,
                       mKeyEventVec[b].keyCode = mKeyEventVec[a].keyCode
                PROVE  a < b
    BY <1>0, <1>4 DEF EventOrder, L
  <2>1. b # i /\ mKeyEventVec[b].keyState = 1  BY <1>4
  <2>2. CASE a = i
    <3>1. i <= b  BY <1>1, <2>1, <2>2
    <3>. QED  BY <1>1, <1>2, <2>1, <2>2, <3>1
  <2>3. CASE a # i
    <3>1. mKeyEventVec[a].keyState = 0  BY <1>4, <2>3
    <3>. QED  BY <2>1, <3>1 DEF EventOrder, L
  <2>. QED  BY <2>2, <2>3
<1>9. EventStates'  BY <1>4 DEF EventStates, L
<1>10. LastDown'  BY <1>0 DEF LastDown
<1>11. InHand'  BY <1>0, <1>2, <1>3 DEF InHand
<1>12. InStep'
  <2>. SUFFICES ASSUME ~orphaned, ~repeated, known
                PROVE  QueueOrder' /\ \A l \in Keycodes, m \in Presses :
                                         HasEntry(l, m)' <=> HasUp(l, m)'
    BY <1>0 DEF InStep
  <2>1. QueueOrder /\ \A l \in Keycodes, m \in Presses : HasEntry(l, m) <=> HasUp(l, m)
    BY DEF InStep
  <2>2. ~released.register  BY <1>0 DEF InHand
  <2>3. ASSUME NEW j \in 1 .. Len(key_queue), key_queue[j].key = k
        PROVE  key_queue[j].press < e.press
    <3>1. HasUp(k, key_queue[j].press)  BY <2>1, <2>3, EntryTypes DEF HasEntry
    <3>2. PICK a \in 1 .. L : /\ mKeyEventVec[a].keyCode = k /\ mKeyEventVec[a].keyState = 0
                              /\ mKeyEventVec[a].press = key_queue[j].press
      BY <3>1 DEF HasUp, L
    <3>3. a < i  BY <1>1, <3>2 DEF EventOrder, L
    <3>. QED  BY <1>1, <3>2, <3>3 DEF EventOrder, L
  <2>4. QueueOrder'  BY <1>0, <1>3, <2>1, <2>3 DEF QueueOrder
  <2>5. ASSUME NEW l \in Keycodes, NEW m \in Presses PROVE HasEntry(l, m)' <=> HasUp(l, m)'
    <3>1. HasEntry(l, m)' <=> HasEntry(l, m) \/ (l = k /\ m = e.press)
      BY <1>0, <1>3, <2>2 DEF HasEntry
    <3>2. HasUp(l, m)' <=> HasUp(l, m) \/ (l = k /\ m = e.press)
      <4>1. HasUp(l, m)' <=> \E j \in 1 .. L : /\ mKeyEventVec[j].keyCode = l
                                               /\ mKeyEventVec'[j].keyState = 0
                                               /\ mKeyEventVec[j].press = m
        BY <1>4 DEF HasUp
      <4>2. HasUp(l, m) <=> \E j \in 1 .. L : /\ mKeyEventVec[j].keyCode = l
                                              /\ mKeyEventVec[j].keyState = 0
                                              /\ mKeyEventVec[j].press = m
        BY DEF HasUp, L
      <4>3. \A j \in 1 .. L :
               mKeyEventVec'[j].keyState = 0 <=> mKeyEventVec[j].keyState = 0 \/ j = i
        BY <1>4
      <4>. QED  BY <1>1, <4>1, <4>2, <4>3
    <3>. QED  BY <2>1, <3>1, <3>2
  <2>. QED  BY <2>4, <2>5
<1>. QED  BY <1>7, <1>8, <1>9, <1>10, <1>11, <1>12

\* last_key is only a key, and what is to be queued stays in hand.
LEMMA Step_Note ==
    ASSUME KeysIInv, Note PROVE KeysIInv'
<1>. USE KeysAssumption DEF KeysIInv
<1>0. /\ input = "note" /\ last_key' = released.key
      /\ input' = IF released.register THEN "enqueue" ELSE "read"
      /\ released' = IF released.register THEN released ELSE NoRelease
      /\ UNCHANGED <<key_queue, key_last_down, key_down_count, mKeyEventVec,
                     keytimer, keyOf, orphaned, repeated>>
  BY DEF Note
<1>1. /\ released.register \in BOOLEAN /\ released.key \in Keycodes \cup {NoKey}
      /\ NoRelease.register = FALSE
      /\ NoRelease \in [press : Presses \cup {0}, key : Keycodes \cup {NoKey},
                        register : BOOLEAN, flag : BOOLEAN]
  BY DEF KeysTypeOK, NoRelease
<1>2. KeysTypeOK'  BY <1>0, <1>1 DEF KeysTypeOK
<1>3. EventOrder' /\ EventStates' /\ LastDown'  BY <1>0 DEF EventOrder, EventStates, LastDown
<1>4. InHand'  BY <1>0, <1>1 DEF InHand
<1>5. released'.register = released.register /\ (released.register => released' = released)
  BY <1>0, <1>1
<1>. HIDE DEF NoRelease
<1>6. InStep'
  <2>1. QueueOrder => QueueOrder'  BY <1>0, <1>5 DEF QueueOrder
  <2>2. \A l, m : HasEntry(l, m)' <=> HasEntry(l, m)  BY <1>0, <1>5 DEF HasEntry
  <2>3. \A l, m : HasUp(l, m)' <=> HasUp(l, m)  BY <1>0 DEF HasUp
  <2>. QED  BY <1>0, <2>1, <2>2, <2>3 DEF InStep
<1>. QED  BY <1>2, <1>3, <1>4, <1>6

\* An entry at the end of the queue, if there is room.
LEMMA QueueGrows ==
    ASSUME KeysTypeOK, NEW k \in Keycodes, NEW n \in Presses, Queued(k, n), Room
    PROVE  /\ key_queue' \in Seq([key : Keycodes, press : Presses])
           /\ Len(key_queue') = Len(key_queue) + 1 /\ Len(key_queue') <= QueueMax
           /\ \A i \in 1 .. Len(key_queue) : key_queue'[i] = key_queue[i]
           /\ key_queue'[Len(key_queue) + 1].key = k
           /\ key_queue'[Len(key_queue) + 1].press = n
<1>. DEFINE S == [key : Keycodes, press : Presses]
            e == [key |-> k, press |-> n]
<1>1. e \in S /\ e.key = k /\ e.press = n  OBVIOUS
<1>2. key_queue \in Seq(S)  BY DEF KeysTypeOK
<1>3. key_queue' = Append(key_queue, e)  BY DEF Queued
<1>4. Len(key_queue) < QueueMax /\ QueueMax \in Nat  BY KeysAssumption DEF Room
<1>. HIDE DEF e, S
<1>5. /\ key_queue' \in Seq(S) /\ Len(key_queue') = Len(key_queue) + 1 /\ Len(key_queue) \in Nat
      /\ \A i \in 1 .. Len(key_queue) : key_queue'[i] = key_queue[i]
      /\ key_queue'[Len(key_queue) + 1] = e
  BY <1>1, <1>2, <1>3
<1>. QED  BY <1>1, <1>4, <1>5 DEF S

\* The release goes from hand to queue, or is dropped.
LEMMA Step_InputEnqueue ==
    ASSUME KeysIInv, InputEnqueue PROVE KeysIInv'
<1>. USE KeysAssumption DEF KeysIInv
<1>. DEFINE k == released.key
            n == released.press
            L == Len(key_queue)
<1>0. /\ input = "enqueue" /\ input' = "read" /\ released' = NoRelease
      /\ \/ Room /\ Queued(k, n) /\ orphaned' = orphaned
         \/ key_queue' = key_queue /\ orphaned' = TRUE
      /\ UNCHANGED <<key_last_down, key_down_count, last_key, mKeyEventVec,
                     keytimer, keyOf, repeated>>
  BY DEF InputEnqueue
<1>1. /\ released.register /\ k \in Keycodes /\ n \in Presses /\ released'.register = FALSE
      /\ released' \in [press : Presses \cup {0}, key : Keycodes \cup {NoKey},
                        register : BOOLEAN, flag : BOOLEAN]
  BY <1>0 DEF InHand, NoRelease
<1>. HIDE DEF k, n
<1>2. Room /\ Queued(k, n) =>
         /\ key_queue' \in Seq([key : Keycodes, press : Presses])
         /\ Len(key_queue') = L + 1 /\ Len(key_queue') <= QueueMax
         /\ \A i \in 1 .. L : key_queue'[i] = key_queue[i]
         /\ key_queue'[L + 1].key = k /\ key_queue'[L + 1].press = n
  BY <1>1, QueueGrows
<1>3. KeysTypeOK'
  <2>1. /\ key_queue' \in Seq([key : Keycodes, press : Presses]) /\ Len(key_queue') <= QueueMax
        /\ orphaned' \in BOOLEAN
    BY <1>0, <1>2 DEF KeysTypeOK
  <2>. QED  BY <1>0, <1>1, <2>1 DEF KeysTypeOK
<1>4. EventOrder' /\ EventStates' /\ LastDown'  BY <1>0 DEF EventOrder, EventStates, LastDown
<1>5. InHand'  BY <1>0, <1>1 DEF InHand
<1>6. InStep'
  <2>. SUFFICES ASSUME ~orphaned, ~repeated, Room, Queued(k, n)
                PROVE  QueueOrder' /\ \A l \in Keycodes, m \in Presses :
                                         HasEntry(l, m)' <=> HasUp(l, m)'
    BY <1>0 DEF InStep
  <2>1. QueueOrder /\ \A l \in Keycodes, m \in Presses : HasEntry(l, m) <=> HasUp(l, m)
    BY DEF InStep
  <2>2. L \in Nat /\ \A i \in 1 .. L + 1 : i \in 1 .. L \/ i = L + 1  BY EntryTypes
  <2>3. 1 .. L \subseteq 1 .. L + 1 /\ L + 1 \in 1 .. L + 1 /\ \A i \in 1 .. L : ~(L + 1 < i)
    BY <2>2
  <2>. HIDE DEF L
  <2>4. QueueOrder'
    <3>. SUFFICES ASSUME NEW i \in 1 .. L + 1, NEW j \in 1 .. L + 1, i < j,
                         key_queue'[i].key = key_queue'[j].key
                  PROVE  key_queue'[i].press < key_queue'[j].press
      BY <1>1, <1>2 DEF QueueOrder
    <3>1. i \in 1 .. L  BY <2>2
    <3>2. CASE j \in 1 .. L  BY <1>2, <2>1, <3>1, <3>2 DEF QueueOrder, L
    <3>3. CASE j = L + 1  BY <1>1, <1>2, <2>1, <3>1, <3>3 DEF QueueOrder, L, k, n
    <3>. QED  BY <2>2, <3>2, <3>3
  <2>5. ASSUME NEW l, NEW m PROVE HasEntry(l, m)' <=> HasEntry(l, m)
    <3>1. HasEntry(l, m) <=> \/ \E i \in 1 .. L : key_queue[i].key = l /\ key_queue[i].press = m
                             \/ k = l /\ n = m
      BY <1>1 DEF HasEntry, L, k, n
    <3>2. HasEntry(l, m)' <=> \E i \in 1 .. L + 1 :
                                 key_queue'[i].key = l /\ key_queue'[i].press = m
      BY <1>1, <1>2 DEF HasEntry
    <3>. QED  BY <1>2, <2>2, <2>3, <3>1, <3>2
  <2>6. \A l, m : HasUp(l, m)' <=> HasUp(l, m)  BY <1>0 DEF HasUp
  <2>. QED  BY <2>1, <2>4, <2>5, <2>6
<1>. QED  BY <1>3, <1>4, <1>5, <1>6

\* The timer marks the event of its press, which is down, or nothing.
LEMMA Step_TimerWake ==
    ASSUME KeysIInv, NEW n \in Presses, TimerWake(n) PROVE KeysIInv'
<1>. USE KeysAssumption DEF KeysIInv
<1>. DEFINE L == Len(mKeyEventVec)
            long == keyOf[n] \in Longmode
            Marked(i) == [mKeyEventVec[i] EXCEPT !.longPress = TRUE, !.curlongPress = long]
<1>0. /\ keytimer[n] = "sleep"
      /\ \E to \in {"none", "loop"} : keytimer' = [keytimer EXCEPT ![n] = to]
      /\ \/ mKeyEventVec' = mKeyEventVec
         \/ /\ StillDown(n)
            /\ mKeyEventVec' = [i \in 1 .. L |-> IF mKeyEventVec[i].press = n THEN Marked(i)
                                                 ELSE mKeyEventVec[i]]
      /\ UNCHANGED <<key_queue, key_last_down, key_down_count, last_key, input,
                     released, keyOf, orphaned, repeated>>
  BY DEF TimerWake
<1>1. L \in Nat /\ mKeyEventVec \in Seq(KeyEvents) /\ long \in BOOLEAN  BY EventTypes
<1>. HIDE DEF long
<1>2. ASSUME NEW i \in 1 .. L
      PROVE  /\ Marked(i) \in KeyEvents /\ Marked(i).press = mKeyEventVec[i].press
             /\ Marked(i).keyCode = mKeyEventVec[i].keyCode
             /\ Marked(i).keyState = mKeyEventVec[i].keyState
  BY <1>1, EventTypes DEF KeyEvents
<1>3. ASSUME StillDown(n), NEW i \in 1 .. L, mKeyEventVec[i].press = n
      PROVE  mKeyEventVec[i].keyState = 1
  <2>1. n <= key_down_count  BY <1>0 DEF LastDown
  <2>2. keyOf[n] \in Keycodes  BY <2>1 DEF LastDown
  <2>3. PICK j \in 1 .. L : mKeyEventVec[j].press = n /\ mKeyEventVec[j].keyState = 1
    BY <1>3, <2>2 DEF LastDown, StillDown, L
  <2>4. n \in Nat  BY DEF Presses
  <2>5. ~(i < j) /\ ~(j < i)  BY <1>3, <2>3, <2>4 DEF EventOrder, L
  <2>6. i = j  BY <1>1, <2>5
  <2>. QED  BY <2>3, <2>6
<1>. HIDE DEF Marked
<1>4. /\ mKeyEventVec' \in Seq(KeyEvents) /\ Len(mKeyEventVec') = L
      /\ \A i \in 1 .. L : /\ mKeyEventVec'[i].press = mKeyEventVec[i].press
                           /\ mKeyEventVec'[i].keyCode = mKeyEventVec[i].keyCode
                           /\ mKeyEventVec'[i].keyState = mKeyEventVec[i].keyState
                           /\ mKeyEventVec[i].keyState = 0 => mKeyEventVec'[i] = mKeyEventVec[i]
  <2>1. CASE mKeyEventVec' = mKeyEventVec  BY <1>1, <2>1
  <2>2. CASE /\ StillDown(n)
             /\ mKeyEventVec' = [i \in 1 .. L |-> IF mKeyEventVec[i].press = n THEN Marked(i)
                                                  ELSE mKeyEventVec[i]]
    <3>. HIDE DEF L
    <3>1. \A i \in 1 .. L : mKeyEventVec[i] \in KeyEvents  BY EventTypes DEF L
    <3>2. mKeyEventVec' \in [1 .. L -> KeyEvents]  BY <1>2, <2>2, <3>1
    <3>3. mKeyEventVec' \in Seq(KeyEvents) /\ Len(mKeyEventVec') = L  BY <1>1, <3>2
    <3>4. \A i \in 1 .. L : mKeyEventVec'[i] = IF mKeyEventVec[i].press = n THEN Marked(i)
                                               ELSE mKeyEventVec[i]
      BY <2>2
    <3>5. ASSUME NEW i \in 1 .. L
          PROVE  /\ mKeyEventVec'[i].press = mKeyEventVec[i].press
                 /\ mKeyEventVec'[i].keyCode = mKeyEventVec[i].keyCode
                 /\ mKeyEventVec'[i].keyState = mKeyEventVec[i].keyState
                 /\ mKeyEventVec[i].keyState = 0 => mKeyEventVec'[i] = mKeyEventVec[i]
      <4>1. CASE mKeyEventVec[i].press = n
        <5>1. mKeyEventVec[i].keyState = 1  BY <1>3, <2>2, <4>1
        <5>. QED  BY <1>2, <3>4, <4>1, <5>1
      <4>2. CASE mKeyEventVec[i].press # n  BY <3>4, <4>2
      <4>. QED  BY <4>1, <4>2
    <3>. QED  BY <3>3, <3>5
  <2>. QED  BY <1>0, <2>1, <2>2
<1>. HIDE DEF L
<1>5. KeysTypeOK'  BY <1>0, <1>4 DEF KeysTypeOK
<1>6. EventOrder'  BY <1>0, <1>4 DEF EventOrder, L
<1>7. EventStates'  BY <1>0, <1>4 DEF EventStates, L
<1>8. LastDown'
  <2>1. \A m \in Presses : keytimer'[m] # "none" => m <= key_down_count
    <3>1. \A m \in Presses : m # n => keytimer'[m] = keytimer[m]
      BY <1>0 DEF KeysTypeOK
    <3>. QED  BY <1>0, <3>1 DEF LastDown
  <2>. QED  BY <1>0, <1>4, <2>1 DEF LastDown, L
<1>9. InHand'  BY <1>0 DEF InHand
<1>10. InStep'
  <2>1. QueueOrder' <=> QueueOrder  BY <1>0 DEF QueueOrder
  <2>2. \A l, m : HasEntry(l, m)' <=> HasEntry(l, m)  BY <1>0 DEF HasEntry
  <2>3. \A l, m : HasUp(l, m)' <=> HasUp(l, m)  BY <1>4 DEF HasUp, L
  <2>. QED  BY <1>0, <2>1, <2>2, <2>3 DEF InStep
<1>. QED  BY <1>5, <1>6, <1>7, <1>8, <1>9, <1>10

\* The loop of the timer looks, and changes nothing else.
LEMMA Step_TimerLoop ==
    ASSUME KeysIInv, NEW n \in Presses, TimerLoop(n) PROVE KeysIInv'
<1>. USE KeysAssumption DEF KeysIInv
<1>0. /\ keytimer[n] = "loop"
      /\ \E to \in {"none", "enqueue"} : keytimer' = [keytimer EXCEPT ![n] = to]
      /\ UNCHANGED <<key_queue, key_last_down, key_down_count, last_key,
                     mKeyEventVec, input, released, keyOf, orphaned, repeated>>
  BY DEF TimerLoop
<1>1. KeysTypeOK'  BY <1>0 DEF KeysTypeOK
<1>2. EventOrder' /\ EventStates'  BY <1>0 DEF EventOrder, EventStates
<1>3. LastDown'
  <2>1. \A m \in Presses : m # n => keytimer'[m] = keytimer[m]
    BY <1>0 DEF KeysTypeOK
  <2>2. \A m \in Presses : keytimer'[m] # "none" => m <= key_down_count
    BY <1>0, <2>1 DEF LastDown
  <2>. QED  BY <1>0, <2>2 DEF LastDown
<1>4. InHand'  BY <1>0 DEF InHand
<1>5. InStep'  BY <1>0 DEF InStep, QueueOrder, HasEntry, HasUp
<1>. QED  BY <1>1, <1>2, <1>3, <1>4, <1>5

\* The timer queues its key once more, and notes that, or finds no room.
LEMMA Step_TimerEnqueue ==
    ASSUME KeysIInv, NEW n \in Presses, TimerEnqueue(n) PROVE KeysIInv'
<1>. USE KeysAssumption DEF KeysIInv
<1>0. /\ keytimer[n] = "enqueue" /\ keytimer' = [keytimer EXCEPT ![n] = "loop"]
      /\ \/ Room /\ Queued(keyOf[n], n) /\ repeated' = TRUE
         \/ key_queue' = key_queue /\ repeated' = repeated
      /\ UNCHANGED <<key_last_down, key_down_count, last_key, mKeyEventVec,
                     input, released, keyOf, orphaned>>
  BY DEF TimerEnqueue
<1>1. n <= key_down_count /\ keyOf[n] \in Keycodes
  <2>1. n <= key_down_count  BY <1>0 DEF LastDown
  <2>. QED  BY <2>1 DEF LastDown
<1>2. KeysTypeOK'
  <2>1. /\ key_queue' \in Seq([key : Keycodes, press : Presses]) /\ Len(key_queue') <= QueueMax
        /\ repeated' \in BOOLEAN
    BY <1>0, <1>1, QueueGrows DEF KeysTypeOK
  <2>. QED  BY <1>0, <2>1 DEF KeysTypeOK
<1>3. EventOrder' /\ EventStates'  BY <1>0 DEF EventOrder, EventStates
<1>4. LastDown'
  <2>1. \A m \in Presses : m # n => keytimer'[m] = keytimer[m]
    BY <1>0 DEF KeysTypeOK
  <2>2. \A m \in Presses : keytimer'[m] # "none" => m <= key_down_count
    BY <1>1, <2>1 DEF LastDown
  <2>. QED  BY <1>0, <2>2 DEF LastDown
<1>5. InHand'  BY <1>0 DEF InHand
<1>6. InStep'  BY <1>0 DEF InStep, QueueOrder, HasEntry, HasUp
<1>. QED  BY <1>2, <1>3, <1>4, <1>5, <1>6

\* WaitKey takes the first entry, and deletes the event of the press it was queued for.
LEMMA Step_WaitKey ==
    ASSUME KeysIInv, WaitKey PROVE KeysIInv'
<1>. USE KeysAssumption DEF KeysIInv
<1>. DEFINE k == Head(key_queue).key
            i == SelectInSeq(mKeyEventVec, LAMBDA e : Reported(e, k))
            L == Len(mKeyEventVec)
            Q == Len(key_queue)
            gone == i # 0 /\ ~mKeyEventVec[i].curlongPress
            At(j) == IF j < i THEN j ELSE j + 1
<1>0. /\ key_queue # <<>> /\ key_queue' = Tail(key_queue)
      /\ mKeyEventVec' = IF gone THEN RemoveAt(mKeyEventVec, i) ELSE mKeyEventVec
      /\ UNCHANGED <<key_last_down, key_down_count, last_key, input, released,
                     keytimer, keyOf, orphaned, repeated>>
  BY DEF WaitKey
<1>1. \/ i = 0 /\ \A j \in 1 .. L : ~Reported(mKeyEventVec[j], k)
      \/ /\ i \in 1 .. L /\ Reported(mKeyEventVec[i], k)
         /\ \A j \in 1 .. L : Reported(mKeyEventVec[j], k) => i <= j
  BY FirstReported
<1>. HIDE DEF i
<1>2. /\ key_queue' \in Seq([key : Keycodes, press : Presses]) /\ Q \in Nat /\ 1 \in 1 .. Q
      /\ Len(key_queue') = Q - 1 /\ \A j \in 1 .. Q - 1 : key_queue'[j] = key_queue[j + 1]
      /\ k = key_queue[1].key
  <2>. DEFINE S == [key : Keycodes, press : Presses]
  <2>1. key_queue \in Seq(S)  BY DEF KeysTypeOK
  <2>. HIDE DEF S
  <2>2. Head(key_queue) = key_queue[1]  BY <1>0, <2>1
  <2>3. /\ key_queue' \in Seq(S) /\ Q \in Nat /\ 1 \in 1 .. Q /\ Len(key_queue') = Q - 1
        /\ \A j \in 1 .. Q - 1 : key_queue'[j] = key_queue[j + 1]
    BY <1>0, <2>1
  <2>. QED  BY <2>2, <2>3 DEF S
<1>3. L \in Nat /\ mKeyEventVec \in Seq(KeyEvents)  BY EventTypes
<1>. HIDE DEF k
<1>4. gone => /\ i \in 1 .. L /\ mKeyEventVec[i].keyCode = k /\ mKeyEventVec[i].keyState = 0
              /\ mKeyEventVec' \in Seq(KeyEvents) /\ Len(mKeyEventVec') = L - 1
              /\ \A j \in 1 .. L - 1 : mKeyEventVec'[j] = mKeyEventVec[At(j)]
  <2>. SUFFICES ASSUME gone
                PROVE  /\ i \in 1 .. L /\ mKeyEventVec[i].keyCode = k
                       /\ mKeyEventVec[i].keyState = 0
                       /\ mKeyEventVec' \in Seq(KeyEvents) /\ Len(mKeyEventVec') = L - 1
                       /\ \A j \in 1 .. L - 1 : mKeyEventVec'[j] = mKeyEventVec[At(j)]
    OBVIOUS
  <2>1. i \in 1 .. L /\ mKeyEventVec[i].keyCode = k /\ mKeyEventVec[i].keyState = 0
    BY <1>1 DEF Reported
  <2>2. mKeyEventVec' = RemoveAt(mKeyEventVec, i)  BY <1>0
  <2>3. /\ RemoveAt(mKeyEventVec, i) \in Seq(KeyEvents)
        /\ Len(RemoveAt(mKeyEventVec, i)) = L - 1
        /\ \A j \in 1 .. L - 1 : RemoveAt(mKeyEventVec, i)[j] =
                                    IF j < i THEN mKeyEventVec[j] ELSE mKeyEventVec[j + 1]
    BY <1>3, <2>1, RemovedAt
  <2>. QED  BY <2>1, <2>2, <2>3
<1>. HIDE DEF L, Q
<1>5. gone => /\ \A j \in 1 .. L - 1 : At(j) \in 1 .. L /\ At(j) # i
              /\ \A j \in 1 .. L : j # i => \E a \in 1 .. L - 1 : At(a) = j
              /\ \A a, b \in 1 .. L - 1 : (a < b <=> At(a) < At(b)) /\ (a <= b <=> At(a) <= At(b))
  <2>. SUFFICES ASSUME gone
                PROVE  /\ \A j \in 1 .. L - 1 : At(j) \in 1 .. L /\ At(j) # i
                       /\ \A j \in 1 .. L : j # i => \E a \in 1 .. L - 1 : At(a) = j
                       /\ \A a, b \in 1 .. L - 1 :
                             (a < b <=> At(a) < At(b)) /\ (a <= b <=> At(a) <= At(b))
    OBVIOUS
  <2>1. i \in 1 .. L /\ L \in Nat  BY <1>3, <1>4 DEF L
  <2>2. ASSUME NEW j \in 1 .. L, j # i PROVE \E a \in 1 .. L - 1 : At(a) = j
    <3>1. CASE j < i
      <4>1. j \in 1 .. L - 1 /\ At(j) = j  BY <2>1, <3>1
      <4>. QED  BY <4>1
    <3>2. CASE ~(j < i)
      <4>1. j - 1 \in 1 .. L - 1 /\ At(j - 1) = j  BY <2>1, <2>2, <3>2
      <4>. QED  BY <4>1
    <3>. QED  BY <3>1, <3>2
  <2>. QED  BY <2>1, <2>2
<1>. HIDE DEF At
<1>6. KeysTypeOK'
  <2>1. mKeyEventVec' \in Seq(KeyEvents)  BY <1>0, <1>3, <1>4
  <2>2. Len(key_queue') <= QueueMax  BY <1>2 DEF KeysTypeOK, Q
  <2>. QED  BY <1>0, <1>2, <2>1, <2>2 DEF KeysTypeOK
<1>7. EventOrder'
  <2>1. CASE ~gone  BY <1>0, <2>1 DEF EventOrder
  <2>2. CASE gone
    <3>1. \A j \in 1 .. L - 1 : mKeyEventVec'[j].press <= key_down_count
      BY <2>2, <1>4, <1>5 DEF EventOrder, L
    <3>2. ASSUME NEW a \in 1 .. L - 1, NEW b \in 1 .. L - 1
          PROVE  /\ a < b => mKeyEventVec'[a].press < mKeyEventVec'[b].press
                 /\ /\ mKeyEventVec'[a].keyState = 0 /\ mKeyEventVec'[b].keyState = 1
                    /\ mKeyEventVec'[b].keyCode = mKeyEventVec'[a].keyCode
                    => a < b
      <4>1. /\ At(a) \in 1 .. L /\ At(b) \in 1 .. L
            /\ a < b <=> At(a) < At(b)
            /\ b <= a <=> At(b) <= At(a)
        BY <2>2, <1>5
      <4>2. mKeyEventVec'[a] = mKeyEventVec[At(a)] /\ mKeyEventVec'[b] = mKeyEventVec[At(b)]
        BY <2>2, <1>4
      <4>. QED  BY <4>1, <4>2 DEF EventOrder, L
    <3>. QED  BY <2>2, <1>0, <1>4, <3>1, <3>2 DEF EventOrder
  <2>. QED  BY <2>1, <2>2
\* What is said of some event that is down is said of one that stays.
<1>8. \A l, s : (\E j \in 1 .. Len(mKeyEventVec') :
                     /\ mKeyEventVec'[j].keyCode = l /\ mKeyEventVec'[j].keyState = 1
                     /\ s => mKeyEventVec'[j].press = key_down_count)
              <=> (\E j \in 1 .. L :
                     /\ mKeyEventVec[j].keyCode = l /\ mKeyEventVec[j].keyState = 1
                     /\ s => mKeyEventVec[j].press = key_down_count)
  <2>1. CASE ~gone  BY <1>0, <2>1 DEF L
  <2>2. CASE gone
    <3>1. /\ \A j \in 1 .. L : mKeyEventVec[j].keyState = 1 => j # i
          /\ Len(mKeyEventVec') = L - 1
      BY <2>2, <1>4
    <3>. QED  BY <2>2, <1>4, <1>5, <3>1
  <2>. QED  BY <2>1, <2>2
<1>9. EventStates'
  <2>1. CASE ~gone  BY <1>0, <2>1 DEF EventStates
  <2>2. CASE gone
    <3>. SUFFICES ASSUME NEW j \in 1 .. L - 1, mKeyEventVec'[j].keyState = 0
                  PROVE  ~mKeyEventVec'[j].curlongPress
      BY <2>2, <1>4 DEF EventStates
    <3>1. At(j) \in 1 .. L /\ mKeyEventVec'[j] = mKeyEventVec[At(j)]  BY <2>2, <1>4, <1>5
    <3>. QED  BY <3>1 DEF EventStates, L
  <2>. QED  BY <2>1, <2>2
<1>10. LastDown'
  <2>. SUFFICES ASSUME key_last_down # NoKey
                PROVE  \E j \in 1 .. Len(mKeyEventVec') :
                          /\ mKeyEventVec'[j].press = key_down_count
                          /\ mKeyEventVec'[j].keyCode = key_last_down
                          /\ mKeyEventVec'[j].keyState = 1
    BY <1>0 DEF LastDown
  <2>1. \E j \in 1 .. L : /\ mKeyEventVec[j].keyCode = key_last_down
                          /\ mKeyEventVec[j].keyState = 1
                          /\ TRUE => mKeyEventVec[j].press = key_down_count
    BY DEF LastDown, L
  <2>. QED  BY ZenonT(60), <1>8, <2>1
<1>11. InHand'  BY <1>0 DEF InHand
<1>12. InStep'
  <2>. SUFFICES ASSUME ~orphaned, ~repeated
                PROVE  QueueOrder' /\ \A l \in Keycodes, m \in Presses :
                                         HasEntry(l, m)' <=> HasUp(l, m)'
    BY <1>0 DEF InStep
  <2>. DEFINE n == key_queue[1].press
  <2>1. QueueOrder /\ \A l \in Keycodes, m \in Presses : HasEntry(l, m) <=> HasUp(l, m)
    BY DEF InStep
  <2>2. k \in Keycodes /\ n \in Presses  BY <1>2, EntryTypes DEF Q
  <2>3. HasEntry(k, n)  BY <1>2 DEF HasEntry, Q
  <2>4. PICK u \in 1 .. L : /\ mKeyEventVec[u].keyCode = k /\ mKeyEventVec[u].keyState = 0
                            /\ mKeyEventVec[u].press = n
    BY <2>1, <2>2, <2>3 DEF HasUp, L
  <2>5. Reported(mKeyEventVec[u], k)  BY <2>4 DEF Reported
  <2>6. i \in 1 .. L /\ i <= u /\ mKeyEventVec[i].keyCode = k /\ mKeyEventVec[i].keyState = 0
    <3>1. i \in 1 .. L /\ i <= u /\ Reported(mKeyEventVec[i], k)  BY <1>1, <2>4, <2>5
    <3>2. mKeyEventVec[i].keyCode = k  BY <3>1 DEF Reported
    <3>3. mKeyEventVec[i].keyState # 1
      <4>. SUFFICES ASSUME mKeyEventVec[i].keyState = 1 PROVE FALSE  OBVIOUS
      <4>1. u < i  BY <2>4, <3>1, <3>2 DEF EventOrder, L
      <4>. QED  BY <2>4, <3>1, <4>1, <1>3 DEF L
    <3>. QED  BY <3>1, <3>2, <3>3, EventTypes DEF L
  <2>7. gone
    <3>1. i # 0  BY <2>6
    <3>. QED  BY <2>6, <3>1 DEF EventStates, L
  <2>8. mKeyEventVec[i].press \in Presses /\ mKeyEventVec[i].press \in Nat /\ n \in Nat
    BY <2>2, <2>6, EventTypes DEF L, Presses
  <2>9. \A j \in 1 .. Q : j # 1 => 1 < j  BY <1>2
  <2>10. mKeyEventVec[i].press = n
    <3>1. HasUp(k, mKeyEventVec[i].press)  BY <2>6 DEF HasUp, L
    <3>2. HasEntry(k, mKeyEventVec[i].press)  BY <2>1, <2>2, <2>8, <3>1
    <3>3. \A j \in 1 .. Q : key_queue[j].key = k /\ j # 1 => n < key_queue[j].press
      BY <1>2, <2>1, <2>9 DEF QueueOrder, Q
    <3>4. released.register /\ released.key = k => n < released.press
      BY <1>2, <2>1 DEF QueueOrder, Q
    <3>5. ~(mKeyEventVec[i].press < n)
      <4>. SUFFICES ASSUME mKeyEventVec[i].press < n PROVE FALSE  OBVIOUS
      <4>1. mKeyEventVec[i].press # n /\ ~(n < mKeyEventVec[i].press)  BY <2>8
      <4>. QED  BY <3>2, <3>3, <3>4, <4>1 DEF HasEntry, Q
    <3>6. i # u => mKeyEventVec[i].press < mKeyEventVec[u].press
      <4>1. i # u => i < u  BY <1>3, <2>4, <2>6 DEF L
      <4>. QED  BY <2>4, <2>6, <4>1 DEF EventOrder, L
    <3>. QED  BY <2>4, <3>5, <3>6
  <2>11. QueueOrder'
    <3>1. \A j \in 1 .. Q - 1 : j + 1 \in 1 .. Q  BY <1>2
    <3>2. \A a, b \in 1 .. Q - 1 : a < b => a + 1 < b + 1  BY <1>2
    <3>3. \A a, b \in 1 .. Q - 1 :
             a < b /\ key_queue'[a].key = key_queue'[b].key
             => key_queue'[a].press < key_queue'[b].press
      BY <1>2, <2>1, <3>1, <3>2 DEF QueueOrder, Q
    <3>. QED  BY <1>0, <1>2, <2>1, <3>1, <3>3 DEF QueueOrder, Q
  <2>12. ASSUME NEW l \in Keycodes, NEW m \in Presses PROVE HasEntry(l, m)' <=> HasUp(l, m)'
    <3>1. HasEntry(l, m)' <=> HasEntry(l, m) /\ ~(l = k /\ m = n)
      <4>1. HasEntry(l, m)' <=>
               \/ \E j \in 1 .. Q - 1 : key_queue[j + 1].key = l /\ key_queue[j + 1].press = m
               \/ released.register /\ released.key = l /\ released.press = m
        BY <1>0, <1>2 DEF HasEntry
      <4>2. HasEntry(l, m) <=>
               \/ \E j \in 1 .. Q : key_queue[j].key = l /\ key_queue[j].press = m
               \/ released.register /\ released.key = l /\ released.press = m
        BY DEF HasEntry, Q
      <4>3. /\ \A j \in 1 .. Q - 1 : j + 1 \in 1 .. Q /\ j + 1 # 1
            /\ \A j \in 1 .. Q : j # 1 => j - 1 \in 1 .. Q - 1 /\ (j - 1) + 1 = j
        BY <1>2
      <4>4. \A j \in 1 .. Q : j # 1 => ~(key_queue[j].key = k /\ key_queue[j].press = n)
        <5>1. ~(n < n)  BY <2>8
        <5>. QED  BY <1>2, <2>1, <2>9, <5>1 DEF QueueOrder, Q
      <4>5. ~(released.register /\ released.key = k /\ released.press = n)
        <5>1. ~(n < n)  BY <2>8
        <5>. QED  BY <1>2, <2>1, <5>1 DEF QueueOrder, Q
      <4>6. (\E j \in 1 .. Q - 1 : key_queue[j + 1].key = l /\ key_queue[j + 1].press = m)
            <=> (\E j \in 1 .. Q : j # 1 /\ key_queue[j].key = l /\ key_queue[j].press = m)
        BY <4>3
      <4>. QED  BY <1>2, <4>1, <4>2, <4>4, <4>5, <4>6
    <3>2. HasUp(l, m)' <=> HasUp(l, m) /\ ~(l = k /\ m = n)
      <4>1. HasUp(l, m)' <=> \E j \in 1 .. L - 1 : /\ mKeyEventVec[At(j)].keyCode = l
                                                   /\ mKeyEventVec[At(j)].keyState = 0
                                                   /\ mKeyEventVec[At(j)].press = m
        BY <1>4, <2>7 DEF HasUp
      <4>2. HasUp(l, m) <=> \E j \in 1 .. L : /\ mKeyEventVec[j].keyCode = l
                                              /\ mKeyEventVec[j].keyState = 0
                                              /\ mKeyEventVec[j].press = m
        BY DEF HasUp, L
      <4>3. (\E j \in 1 .. L - 1 : /\ mKeyEventVec[At(j)].keyCode = l
                                   /\ mKeyEventVec[At(j)].keyState = 0
                                   /\ mKeyEventVec[At(j)].press = m)
            <=> (\E j \in 1 .. L : /\ j # i /\ mKeyEventVec[j].keyCode = l
                                   /\ mKeyEventVec[j].keyState = 0
                                   /\ mKeyEventVec[j].press = m)
        BY <1>5, <2>7
      <4>4. \A j \in 1 .. L : mKeyEventVec[j].press = n <=> j = i
        <5>1. \A j \in 1 .. L : j # i => j < i \/ i < j  BY <2>6, <1>3 DEF L
        <5>2. ~(n < n)  BY <2>8
        <5>. QED  BY <2>6, <2>10, <5>1, <5>2 DEF EventOrder, L
      <4>. QED  BY <2>6, <2>10, <4>1, <4>2, <4>3, <4>4
    <3>. QED  BY <2>1, <3>1, <3>2
  <2>. QED  BY <2>11, <2>12
<1>. QED  BY <1>6, <1>7, <1>9, <1>10, <1>11, <1>12

-----------------------------------------------------------------------------
(* The keys: the theorems.                                                 *)

\* In the initial state nothing was pressed.
LEMMA InitKeysIInv == KeysInit => KeysIInv
<1>. SUFFICES ASSUME KeysInit PROVE KeysIInv  OBVIOUS
<1>. USE KeysAssumption DEF KeysInit
<1>1. KeysTypeOK
  <2>1. released \in [press : Presses \cup {0}, key : Keycodes \cup {NoKey},
                      register : BOOLEAN, flag : BOOLEAN]
    BY DEF NoRelease
  <2>2. key_queue \in Seq([key : Keycodes, press : Presses]) /\ Len(key_queue) <= QueueMax
    OBVIOUS
  <2>3. mKeyEventVec \in Seq(KeyEvents)  OBVIOUS
  <2>4. /\ keytimer \in [Presses -> {"none", "sleep", "loop", "enqueue"}]
        /\ keyOf \in [Presses -> Keycodes \cup {NoKey}]
    OBVIOUS
  <2>. QED  BY <2>1, <2>2, <2>3, <2>4 DEF KeysTypeOK
<1>2. EventOrder /\ EventStates  BY DEF EventOrder, EventStates
<1>3. LastDown  BY DEF LastDown, Presses
<1>4. InHand /\ InStep  BY DEF InHand, InStep, QueueOrder, HasEntry, HasUp, NoRelease
<1>. QED  BY <1>1, <1>2, <1>3, <1>4 DEF KeysIInv

\* Every step keeps it.
LEMMA StepKeysIInv == KeysIInv /\ [KeysNext]_keyVars => KeysIInv'
<1>. SUFFICES ASSUME KeysIInv, [KeysNext]_keyVars PROVE KeysIInv'  OBVIOUS
<1>1. CASE UNCHANGED keyVars
  BY <1>1 DEF keyVars, KeysIInv, KeysTypeOK, EventOrder, EventStates, LastDown, InHand, InStep,
              QueueOrder, HasEntry, HasUp
<1>2. ASSUME NEW k \in Keycodes, KeyDown(k) \/ KeyRepeat(k) \/ KeyUp(k) PROVE KeysIInv'
  BY <1>2, Step_KeyDown, Step_KeyRepeat, Step_KeyUp, Step_KeyUpAlone
<1>3. CASE Note \/ InputEnqueue \/ WaitKey  BY <1>3, Step_Note, Step_InputEnqueue, Step_WaitKey
<1>4. ASSUME NEW n \in Presses, TimerWake(n) \/ TimerLoop(n) \/ TimerEnqueue(n) PROVE KeysIInv'
  BY <1>4, Step_TimerWake, Step_TimerLoop, Step_TimerEnqueue
<1>. QED  BY <1>1, <1>2, <1>3, <1>4 DEF KeysNext

\* So it holds in every state.
LEMMA KeysIInvHolds == KeysSpec => []KeysIInv
BY InitKeysIInv, StepKeysIInv, PTL DEF KeysSpec

\* Every variable keeps its type, and the queue of keys never has more than its room.
THEOREM KeysTypeCorrect == KeysSpec => []KeysTypeOK
<1>1. KeysIInv => KeysTypeOK  BY DEF KeysIInv
<1>. QED  BY <1>1, KeysIInvHolds, PTL

\* The timer of a press marks the event of this press, and WaitKey finds for each entry
\* the event of the press it was queued for, while no release was dropped and no timer
\* queued a key, for any number of keys, presses and entries.
THEOREM PressesAlwaysKept == KeysSpec => []PressesKept
BY KeysKept, KeysIInvHolds, PTL

-----------------------------------------------------------------------------
(* The four services together.                                             *)

\* What runs is one of them: each of them takes its own steps or none.
LEMMA EachIsIts ==
    MCSpec => IpcSpec /\ WifiSpec /\ ShutdownSpec /\ KeysSpec
<1>1. MCInit => IpcInit /\ WifiInit /\ ShutdownInit /\ KeysInit  BY DEF MCInit
<1>2. [MCNext]_allVars => /\ [IpcNext]_ipcVars /\ [WifiNext]_wifiVars
                          /\ [ShutdownNext]_shutdownVars /\ [KeysNext]_keyVars
  BY DEF MCNext, allVars
<1>. QED  BY <1>1, <1>2, PTL DEF MCSpec, IpcSpec, WifiSpec, ShutdownSpec, KeysSpec

\* The variables of all services keep their types, whichever of them runs: the queue of
\* keys does not overflow, and the list, the table and the timer are what they are read as.
THEOREM ServicesTypeCorrect == MCSpec => []ServicesTypeOK
<1>1. ServicesTypeOK <=> IpcTypeOK /\ WifiTypeOK /\ ShutdownTypeOK /\ KeysTypeOK
  BY DEF ServicesTypeOK
<1>. QED
  BY EachIsIts, IpcTypeCorrect, WifiTypeCorrect, ShutdownTypeCorrect, KeysTypeCorrect, <1>1, PTL

\* And what each of them promises holds of them together.
THEOREM ServicesKeepPromises ==
    MCSpec => /\ []ServedWhileListed /\ OwnAnswer
              /\ []FreshResults /\ []TableAgrees
              /\ []TimerAgrees /\ []PressesKept
BY EachIsIts, AlwaysServed, AnswersAreOwn, ResultsAlwaysFresh, TableAlwaysAgrees,
   TimerAlwaysAgrees, PressesAlwaysKept, PTL
=============================================================================
