--------------------------- MODULE MCDeviceServices ---------------------------
(* Instances of four small components that share nothing: one of them runs.   *)
EXTENDS SocketIpc, WpaWifi, AutoShutdown, EventsProcess, TLC

VARIABLE component

allVars == <<component, ipcVars, wifiVars, shutdownVars, keyVars>>

\* All peers call the same channel.
MCTarget == [p \in Peers |-> CHOOSE h \in Handles : TRUE]

\* The names of networks are interchangeable: nothing compares them but for equality.
MCSymmetry == Permutations(Ssids)

\* The other components start from one state of the Wi-Fi helper.
NoNetworks == Known = {} /\ ~misread

MCInit ==
    /\ component \in {"ipc", "wifi", "shutdown", "keys"}
    /\ IpcInit
    /\ WifiInit /\ (component # "wifi" => NoNetworks)
    /\ ShutdownInit /\ (component # "shutdown" => usb_state = "CONNECT")
    /\ KeysInit

MCNext ==
    /\ component' = component
    /\ \/ component = "ipc" /\ IpcNext /\ UNCHANGED <<wifiVars, shutdownVars, keyVars>>
       \/ component = "wifi" /\ WifiNext /\ UNCHANGED <<ipcVars, shutdownVars, keyVars>>
       \/ component = "shutdown" /\ ShutdownNext /\ UNCHANGED <<ipcVars, wifiVars, keyVars>>
       \/ component = "keys" /\ KeysNext /\ UNCHANGED <<ipcVars, wifiVars, shutdownVars>>

MCSpec == MCInit /\ [][MCNext]_allVars

\* Every variable of the four components has its type; the key queue does not overflow.
ServicesTypeOK == IpcTypeOK /\ WifiTypeOK /\ ShutdownTypeOK /\ KeysTypeOK
=============================================================================
