------------------------------- MODULE WpaWifi -------------------------------
(***************************************************************************)
(* The Wi-Fi helper (aml_wpa_wifi_util.c): a process that scans, connects  *)
(* and removes networks through wpa_supplicant.  Its threads are the       *)
(* application, which calls the library, the event monitor, and one        *)
(* connection monitor for each connect.  They share g_wpa_manager; a step  *)
(* is what one of them does under sup_lock, or a read or write outside it. *)
(*                                                                         *)
(* The connection monitors keep nothing of their own, so it is enough to   *)
(* count them.  wpa_supplicant, external here, tells of an event at any    *)
(* time, in any order, or not: a request of another thread that waits for  *)
(* its reply on the same socket drops the events it receives.              *)
(*                                                                         *)
(* Left out: priorities of networks, and with them previous_connected_-    *)
(* network_id, credentials, SAVE_CONFIG, and uninit.                       *)
(***************************************************************************)
EXTENDS Integers, FiniteSets, FiniteSetsExt

CONSTANTS Ssids,       \* names of networks
          NoSsid,      \* no network
          Blank,       \* the name of a network that was never given one
          MaxNetworks, \* bound: identifiers of networks
          MaxConnects, \* bound: calls that connect
          MaxRemoves   \* bound: calls that remove

ASSUME WifiAssumption ==
    /\ MaxNetworks \in Nat /\ MaxConnects \in Nat /\ MaxRemoves \in Nat
    /\ NoSsid \notin Ssids /\ Blank \notin Ssids \cup {NoSsid}

VARIABLES
    cur_scan_status, cur_wifi_status, \* of g_wpa_manager
    network_num, network_info,
    cur_network_id, pending_network_id,
    networks,  \* external: what wpa_supplicant has under each identifier
    monitor,   \* where the event monitor is
    ui, target, \* where the application is, and the network it connects to or removes
    watching, timedout, joined, \* connection monitors, by what they are about to do
    connects, removes, \* counters for the bounds
    flushed,   \* history: BSS_FLUSH since the last results were read
    unflushed, \* history: each BSS_FLUSH since then failed
    saved,     \* history: the pending network was there before
    overlapped, \* history: networks changed while a connection was pending
    giveup,    \* history: a connection to a saved network failed
    faulted,   \* history: a request about networks was not carried out as it was meant
    misread    \* history: LIST_NETWORKS did not give the networks 0, 1, ... without gaps

scanVars  == <<cur_scan_status, flushed, unflushed>>
tableVars == <<network_num, network_info, networks>>
connVars  == <<cur_wifi_status, cur_network_id, pending_network_id, watching, timedout, joined>>
pastVars  == <<connects, removes, saved, overlapped, giveup, faulted, misread>>
wifiVars  == <<scanVars, tableVars, connVars, pastVars, monitor, ui, target>>

NetIds == 0 .. MaxNetworks - 1
NoId == -1
Names == Ssids \cup {NoSsid, Blank}
Known == {n \in NetIds : networks[n] # NoSsid}
Pending == watching + timedout + joined

WifiTypeOK ==
    /\ cur_scan_status \in {"IDLE", "CMD_SENT", "STARTED", "RESULTS_RECEIVED"}
    /\ cur_wifi_status \in {"INVALID", "SUCCESS", "OTHER"}
    /\ network_num \in Int /\ network_info \in [NetIds -> Names]
    /\ cur_network_id \in Int /\ pending_network_id \in Int
    /\ networks \in [NetIds -> Names]
    /\ monitor \in {"recv", "results", "connected"}
    /\ ui \in {"idle", "sent", "fetch", "parsed", "check", "connect", "remove"}
    /\ target \in Int
    /\ watching \in Nat /\ timedout \in Nat /\ joined \in Nat
    /\ connects \in Nat /\ removes \in Nat
    /\ flushed \in BOOLEAN /\ unflushed \in BOOLEAN /\ saved \in BOOLEAN
    /\ overlapped \in BOOLEAN /\ giveup \in BOOLEAN /\ faulted \in BOOLEAN
    /\ misread \in BOOLEAN

\* init_network_info: the lines of LIST_NETWORKS that are parsed fill the table in their
\* order, whatever the identifiers.  A network without a name is skipped, the reply may
\* be cut short, within a name too, and if the request fails the table is empty.
Position(n, listed) == Cardinality({m \in listed : m < n})

TableRead(listed, cut) ==
    /\ network_num = Cardinality(listed)
    /\ network_info \in [NetIds -> Ssids \cup {NoSsid}]
    /\ \A n \in NetIds : network_info[n] = NoSsid <=> n >= network_num
    /\ \A n \in listed : network_info[Position(n, listed)] # networks[n] =>
                            cut /\ n = Max(listed)
    /\ misread = (cut \/ listed # Known \/ Known # 0 .. Cardinality(Known) - 1)

\* wpa_wifi_init, and init_cur_wifi_status: STATUS may fail, and tells the identifier of
\* the network also before the connection is complete.
WifiInit ==
    /\ networks \in [NetIds -> Names]
    /\ \E listed \in SUBSET {n \in NetIds : networks[n] \in Ssids}, cut \in BOOLEAN :
           TableRead(listed, cut)
    /\ cur_network_id \in {NoId} \cup Known
    /\ cur_wifi_status = "INVALID" \/ (cur_wifi_status = "SUCCESS" /\ cur_network_id # NoId)
    /\ cur_scan_status = "IDLE" /\ pending_network_id = NoId
    /\ monitor = "recv" /\ ui = "idle" /\ target = NoId
    /\ watching = 0 /\ timedout = 0 /\ joined = 0 /\ connects = 0 /\ removes = 0
    /\ flushed = FALSE /\ unflushed = FALSE /\ saved = FALSE
    /\ overlapped = FALSE /\ giveup = FALSE /\ faulted = FALSE

-----------------------------------------------------------------------------
(* The application: scanning.                                              *)

\* wpa_wifi_send_scan_cmd: SCAN is sent, again as long as the reply is FAIL-BUSY.
ScanCommand ==
    /\ ui = "idle" /\ cur_scan_status # "RESULTS_RECEIVED" /\ ui' = "sent"
    /\ UNCHANGED <<scanVars, tableVars, connVars, pastVars, monitor, target>>

ScanSent ==
    /\ ui = "sent" /\ ui' = "idle"
    /\ cur_scan_status' = "CMD_SENT"
    /\ UNCHANGED <<flushed, unflushed, tableVars, connVars, pastVars, monitor, target>>

\* wpa_wifi_get_scan_results: it waits for the status, without the lock.
ResultsWait ==
    /\ ui = "idle" /\ cur_scan_status = "RESULTS_RECEIVED" /\ ui' = "fetch"
    /\ UNCHANGED <<scanVars, tableVars, connVars, pastVars, monitor, target>>

\* SCAN_RESULTS and parse_scan_results: a reply that cannot be parsed changes nothing.
ResultsRead ==
    /\ ui = "fetch"
    /\ \/ ui' = "idle" /\ UNCHANGED <<flushed, unflushed>>
       \/ ui' = "parsed" /\ flushed' = FALSE /\ unflushed' = FALSE
    /\ UNCHANGED <<cur_scan_status, tableVars, connVars, pastVars, monitor, target>>

ResultsDone ==
    /\ ui = "parsed" /\ ui' = "idle" /\ cur_scan_status' = "IDLE"
    /\ UNCHANGED <<flushed, unflushed, tableVars, connVars, pastVars, monitor, target>>

-----------------------------------------------------------------------------
(* The application: networks.                                              *)

Overlaps == overlapped' = (overlapped \/ Pending > 0)

\* wpa_supplicant gives a network the identifier after the largest.
NewId == IF Known = {} THEN 0 ELSE Max(Known) + 1

\* Bound: one request fails at most, and none if the table was misread at the start.
MayFail == ~faulted /\ ~misread

\* Bound: over a table that was misread there is one call that connects or removes, and
\* after a request that failed there is none.
MayCall == faulted \/ misread => connects + removes = 0

Set(n, s, nets) == IF nets[n] # NoSsid THEN [nets EXCEPT ![n] = s] ELSE nets
Without(ids, nets) == [n \in NetIds |-> IF n \in ids THEN NoSsid ELSE nets[n]]

\* wpa_wifi_send_connect_cmd under the lock.  If ADD_NETWORK is refused, or is carried
\* out but its reply is lost, atoi makes an identifier of what is in the buffer: 0 of
\* FAIL, or what an earlier reply left there; SET_NETWORK then names that network.  Or
\* it is SET_NETWORK that fails.
AddNetwork(s) ==
    LET added == [networks EXCEPT ![NewId] = Blank]
    IN
    /\ ui = "idle" /\ MayCall /\ connects < MaxConnects
    /\ NewId \in NetIds /\ network_num < MaxNetworks
    /\ \/ target' = NewId /\ networks' = Set(NewId, s, added) /\ faulted' = faulted
       \/ /\ MayFail /\ faulted' = TRUE /\ target' \in NetIds
          /\ networks' \in {Set(target', s, networks), Set(target', s, added)}
       \/ MayFail /\ faulted' = TRUE /\ target' = NewId /\ networks' = added
    /\ network_num' = network_num + 1
    /\ network_info' = [network_info EXCEPT ![target'] = s]
    /\ connects' = connects + 1 /\ saved' = FALSE /\ Overlaps
    /\ ui' = "check"
    /\ UNCHANGED <<scanVars, connVars, removes, giveup, misread, monitor>>

\* wpa_wifi_connect_with_network_id called by the application.
ConnectSaved(n) ==
    /\ ui = "idle" /\ MayCall /\ connects < MaxConnects
    /\ connects' = connects + 1 /\ saved' = TRUE /\ Overlaps
    /\ ui' = "check" /\ target' = n
    /\ UNCHANGED <<scanVars, tableVars, connVars, removes, giveup, faulted, misread,
                   monitor>>

InTable(n) == 0 <= n /\ n < network_num

\* The identifier is checked before the lock is taken.
ConnectCheck ==
    /\ ui = "check"
    /\ IF InTable(target) THEN ui' = "connect" /\ target' = target
                          ELSE ui' = "idle" /\ target' = NoId
    /\ UNCHANGED <<scanVars, tableVars, connVars, pastVars, monitor>>

\* Then the network is enabled, and a connection monitor started.
Connect ==
    /\ ui = "connect" /\ ui' = "idle" /\ target' = NoId
    /\ cur_wifi_status' = "INVALID"
    /\ pending_network_id' = target
    /\ watching' = watching + 1
    /\ UNCHANGED <<scanVars, tableVars, cur_network_id, timedout, joined, pastVars, monitor>>

EarlierLast == network_info[IF network_num > 1 THEN network_num - 2 ELSE 0] \* mutant
LastSsid == network_info[network_num - 1]

\* wpa_supplicant removes the networks ids of nets, where nets is what it was asked to
\* make of the networks before; one of the two requests may not be carried out.
Dropped(ids, nets) ==
    \/ faulted' = faulted /\ networks' = Without(ids, nets)
    \/ /\ MayFail /\ faulted' = TRUE
       /\ networks' \in {nets, Without(ids, networks)} \ {Without(ids, nets)}

\* wpa_wifi_send_remove_network; NoId stands for all.  The identifier is checked before
\* the lock is taken.
RemoveCheck(n) ==
    /\ ui = "idle" /\ MayCall /\ removes < MaxRemoves /\ removes' = removes + 1
    /\ n = NoId \/ InTable(n)
    /\ ui' = "remove" /\ target' = n /\ Overlaps
    /\ UNCHANGED <<scanVars, tableVars, connVars, connects, saved, giveup, faulted, misread,
                   monitor>>

\* Under the lock, a network that is not the last is overwritten with the last, which is
\* removed in its place.  A monitor may have changed network_num since the check: then
\* the last may be before the table, where any bytes are taken for its name.
RemoveNetwork ==
    LET last == network_num - 1
        swaps == target \notin {NoId, last}
    IN
    /\ ui = "remove" /\ ui' = "idle" /\ target' = NoId
    /\ Dropped(IF target = NoId THEN NetIds ELSE {last},
              IF swaps /\ last \in Known /\ networks[last] # Blank
              THEN Set(target, networks[last], networks) ELSE networks)
    /\ network_num' = IF target = NoId THEN 0 ELSE last
    /\ IF swaps THEN \E s \in IF last \in NetIds THEN {LastSsid} ELSE Names :
                        network_info' = [network_info EXCEPT ![target] = s]
       ELSE network_info' = network_info
    /\ UNCHANGED <<scanVars, connVars, connects, removes, saved, overlapped, giveup, misread,
                   monitor>>

\* wpa_wifi_send_disconnect_cmd, after the command.
Disconnect ==
    /\ ui = "idle" /\ cur_wifi_status # "OTHER" /\ cur_wifi_status' = "OTHER"
    /\ UNCHANGED <<scanVars, tableVars, cur_network_id, pending_network_id, watching, timedout,
                   joined, pastVars, monitor, ui, target>>

-----------------------------------------------------------------------------
(* The event monitor.                                                      *)

ScanStarted ==
    /\ monitor = "recv" /\ cur_scan_status = "CMD_SENT"
    /\ cur_scan_status' = "STARTED"
    /\ \/ flushed' = TRUE /\ unflushed' = FALSE
       \/ flushed' = flushed /\ unflushed' = ~flushed
    /\ UNCHANGED <<tableVars, connVars, pastVars, monitor, ui, target>>

AnyScan == TRUE                                          \* mutant
Scanning == cur_scan_status = "STARTED"

\* The status is checked without the lock.
ScanResults ==
    /\ monitor = "recv" /\ Scanning /\ monitor' = "results"
    /\ UNCHANGED <<scanVars, tableVars, connVars, pastVars, ui, target>>

ScanReceived ==
    /\ monitor = "results" /\ monitor' = "recv"
    /\ cur_scan_status' = "RESULTS_RECEIVED"
    /\ UNCHANGED <<flushed, unflushed, tableVars, connVars, pastVars, ui, target>>

\* STATUS tells the network that is current by now, if there is one.  The code notes it
\* after the lock is given back, here it is one step.
Connected ==
    /\ monitor = "recv" /\ monitor' = "connected"
    /\ cur_network_id' \in Known \cup {cur_network_id}
    /\ UNCHANGED <<scanVars, tableVars, cur_wifi_status, pending_network_id, watching, timedout,
                   joined, pastVars, ui, target>>

ConnectedDone ==
    /\ monitor = "connected" /\ monitor' = "recv" /\ cur_wifi_status' = "SUCCESS"
    /\ UNCHANGED <<scanVars, tableVars, cur_network_id, pending_network_id, watching, timedout,
                   joined, pastVars, ui, target>>

\* Disconnected, temporarily disabled, not found, and the events of WPS.
OtherEvent ==
    /\ monitor = "recv" /\ cur_wifi_status # "OTHER" /\ cur_wifi_status' = "OTHER"
    /\ UNCHANGED <<scanVars, tableVars, cur_network_id, pending_network_id, watching, timedout,
                   joined, pastVars, monitor, ui, target>>

-----------------------------------------------------------------------------
(* new_connection_monitor_thread_function.                                 *)

\* It looks at the status every second, for 24 seconds.
Success ==
    /\ watching > 0 /\ cur_wifi_status = "SUCCESS"
    /\ watching' = watching - 1 /\ joined' = joined + 1
    /\ UNCHANGED <<scanVars, tableVars, cur_wifi_status, cur_network_id, pending_network_id,
                   timedout, pastVars, monitor, ui, target>>

Timeout ==
    /\ watching > 0
    /\ watching' = watching - 1 /\ timedout' = timedout + 1
    /\ UNCHANGED <<scanVars, tableVars, cur_wifi_status, cur_network_id, pending_network_id,
                   joined, pastVars, monitor, ui, target>>

\* The pending network has failed: it is removed if it is the last.
Failed ==
    /\ network_num' = network_num - 1 /\ network_info' = network_info
    /\ IF pending_network_id = network_num - 1 THEN Dropped({pending_network_id}, networks)
       ELSE UNCHANGED <<networks, faulted>>
    /\ giveup' = (giveup \/ saved)

TimeoutEnds ==
    /\ timedout > 0 /\ timedout' = timedout - 1
    /\ Failed
    /\ pending_network_id' = NoId /\ cur_network_id' = NoId /\ cur_wifi_status' = "OTHER"
    /\ UNCHANGED <<scanVars, watching, joined, connects, removes, saved, overlapped,
                   misread, monitor, ui, target>>

SuccessEnds ==
    /\ joined > 0 /\ joined' = joined - 1
    /\ IF cur_network_id # pending_network_id THEN Failed
       ELSE UNCHANGED <<tableVars, giveup, faulted>>
    /\ pending_network_id' = NoId
    /\ UNCHANGED <<scanVars, cur_wifi_status, cur_network_id, watching, timedout, connects,
                   removes, saved, overlapped, misread, monitor, ui, target>>

-----------------------------------------------------------------------------
WifiNext ==
    \/ ScanCommand \/ ScanSent \/ ResultsWait \/ ResultsRead \/ ResultsDone
    \/ \E s \in Ssids : AddNetwork(s)
    \/ \E n \in NetIds : ConnectSaved(n)
    \/ \E n \in NetIds \cup {NoId} : RemoveCheck(n)
    \/ ConnectCheck \/ Connect \/ RemoveNetwork \/ Disconnect
    \/ ScanStarted \/ ScanResults \/ ScanReceived
    \/ Connected \/ ConnectedDone \/ OtherEvent
    \/ Success \/ Timeout \/ TimeoutEnds \/ SuccessEnds

WifiSpec == WifiInit /\ [][WifiNext]_wifiVars

-----------------------------------------------------------------------------
(* What must hold.                                                         *)

\* Results of a scan are read only after the old ones were flushed, since the last
\* reading, unless all those requests failed: neither results of scans that nobody asked
\* for, nor a scan that starts before its command is noted, nor another command
\* meanwhile lets stale ones through.
FreshResults == ui = "fetch" /\ ~unflushed => flushed

\* The table has exactly the networks of wpa_supplicant, whatever succeeds, times out,
\* falls back to another network or is removed, unless LIST_NETWORKS failed, was cut
\* short or gave identifiers with gaps at the start, networks were changed while a
\* connection was pending (a removal that is checked then may find another table under
\* the lock), a connection to a network of the table failed, or wpa_supplicant did not
\* carry out a request.
TableAgrees ==
    misread \/ overlapped \/ giveup \/ faulted \/
    \A n \in NetIds : networks[n] = IF InTable(n) THEN network_info[n] ELSE NoSsid
=============================================================================
