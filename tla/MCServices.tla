------------------------------ MODULE MCServices ------------------------------
(***************************************************************************)
(* One run for the services around the agent, which share nothing but the  *)
(* bus: "part" says which of them this behaviour is about, the others rest *)
(* in one initial state.  Of the stores, the notes, the memories and the   *)
(* sessions' rows are parts of their own.  Of two choices that do not meet *)
(* (HEARTBEAT.md and the file of an earlier version) not every pair is     *)
(* taken, and the tools begin without a file: a first call writes it.      *)
(***************************************************************************)
EXTENDS WebChannel, ChannelManager, LastChannel, Stores, ChatAdapters, ChatConnections,
        Credentials, WorkspaceTools

VARIABLE part

StoreParts == {"notes", "memories", "row"}
Parts == {"web", "manager", "place", "adapters", "links", "credentials", "tools"} \cup StoreParts

serviceVars == <<part, webVars, managerVars, placeVars, storesVars, adapterVars, linkVars,
                 credentialVars, toolVars>>

ServicesInit ==
    /\ part \in Parts
    /\ WebInit
    /\ ManagerInit /\ (part # "manager" => channels = {})
    /\ PlaceInit /\ (part # "place" => oldFile = None) /\ (oldFile # None => prompt = "text")
    /\ (part # "place" => prompt = "text")
    /\ StoresInit /\ (part # "memories" => embedding = "onnx")
    /\ AdaptersInit /\ (part # "adapters" => platform = "telegram")
    /\ LinksInit /\ (part # "links" => adapter = "onebot")
    /\ CredentialsInit
    /\ ToolsInit /\ file = Absent

ServicesNext ==
    /\ UNCHANGED part
    /\ (part # "web" => UNCHANGED webVars) /\ (part # "manager" => UNCHANGED managerVars)
    /\ (part # "place" => UNCHANGED placeVars) /\ (part \notin StoreParts => UNCHANGED storesVars)
    /\ (part # "adapters" => UNCHANGED adapterVars) /\ (part # "links" => UNCHANGED linkVars)
    /\ (part # "credentials" => UNCHANGED credentialVars) /\ (part # "tools" => UNCHANGED toolVars)
    /\ \/ (part = "web" /\ WebNext)
       \/ (part = "manager" /\ ManagerNext)
       \/ (part = "place" /\ PlaceNext)
       \/ (part \in StoreParts /\ ProcessNext)
       \/ (part = "notes" /\ NotesNext)
       \/ (part = "memories" /\ MemoriesNext)
       \/ (part = "row" /\ RowNext)
       \/ (part = "adapters" /\ AdaptersNext)
       \/ (part = "links" /\ LinksNext)
       \/ (part = "credentials" /\ CredentialsNext)
       \/ (part = "tools" /\ ToolsNext)

\* At rest none of the components has a step that fairness asks for.
ServicesSpec ==
    /\ ServicesInit /\ [][ServicesNext]_serviceVars
    /\ ManagerFairness /\ LinksFairness /\ ToolsFairness

\* Every component's variables have their types.
ServicesTypeOK ==
    /\ WebTypeOK /\ ManagerTypeOK /\ PlaceTypeOK /\ StoresTypeOK
    /\ AdaptersTypeOK /\ LinksTypeOK /\ CredentialsTypeOK /\ ToolsTypeOK
=============================================================================
