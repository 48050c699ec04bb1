------------------------------ MODULE Handlers ------------------------------
(***************************************************************************)
(* Who handles a message: the dispatcher of dispatcher.go, the handlers    *)
(* that the Pinecone service registers when it is made, and those that the *)
(* file transfer integration and its adapter add and never take away.      *)
(* Every handler is for one type of message, and two of a type differ.     *)
(***************************************************************************)
EXTENDS FiniteSets

CONSTANTS BuiltIn,  \* types the Pinecone service registers: text, ack, nack...
          FileType, \* types of the file transfer adapter
          none      \* no handler

ASSUME HandlersAssumption == BuiltIn \cap FileType = {}

Type == BuiltIn \cup FileType
Handler == [type : Type, of : {"service", "adapter", "caller"}]
HandlerOf(who, t) == [type |-> t, of |-> who]

ASSUME NoneIsNoHandler == none \notin Handler

VARIABLES registered,  \* MessageDispatcher.handlers
          default,     \* MessageDispatcher.defaultHandler
          handlers,    \* FileTransferAdapter.handlers
          initialized, \* the handlers whose Initialize was called last
          adapterUp, integrationUp, \* the two initialized fields
          serviceUp    \* FileTransferService.isRunning

handlersVars ==
  <<registered, default, handlers, initialized, adapterUp, integrationUp, serviceUp>>

(* registerMessageHandlers; NewFileTransferIntegration, initializeHandlers *)
HandlersInit ==
  /\ registered = [t \in Type |-> IF t \in BuiltIn THEN HandlerOf("service", t) ELSE none]
  /\ default = none
  /\ handlers = [t \in Type |-> IF t \in FileType THEN HandlerOf("adapter", t) ELSE none]
  /\ initialized = {HandlerOf("service", t) : t \in BuiltIn}
  /\ adapterUp = FALSE /\ integrationUp = FALSE /\ serviceUp = FALSE

Adapted == {t \in Type : handlers[t] # none}
AdapterHandlers == {handlers[t] : t \in Adapted}
Taken == {t \in Type : registered[t] # none}

(* RegisterHandler: the first handler of a type stays *)
RegisterHandler(h) ==
  /\ registered' = IF h.type \in Taken THEN registered ELSE [registered EXCEPT ![h.type] = h]
  /\ initialized' = IF h.type \in Taken THEN initialized ELSE initialized \cup {h}

(* SetMessageHandler of the Pinecone service: a refusal is only logged *)
SetMessageHandler(t) ==
  /\ RegisterHandler(HandlerOf("caller", t))
  /\ UNCHANGED <<default, handlers, adapterUp, integrationUp, serviceUp>>

SetDefaultHandler(h) ==
  /\ default' = h
  /\ initialized' = (initialized \ {default}) \cup ({h} \ {none})
  /\ UNCHANGED <<registered, handlers, adapterUp, integrationUp, serviceUp>>

(* FileTransferAdapter.Initialize registers its handlers in the order of a Go
   map and stops at the first that is refused *)
Registers(done) ==
  /\ registered' = [t \in Type |-> IF t \in done THEN handlers[t] ELSE registered[t]]
  /\ initialized' = initialized \cup AdapterHandlers

(* Mutant: a handler that cannot be registered does not stop the adapter. *)
InitializeAdapterAnyway ==
  \E done \in SUBSET (Adapted \ Taken) :
    /\ Adapted \cap Taken = {} => done = Adapted
    /\ Registers(done) /\ adapterUp' = TRUE

InitializeAdapter ==
  \E done \in SUBSET (Adapted \ Taken) :
    /\ Adapted \cap Taken = {} => done = Adapted
    /\ Registers(done) /\ adapterUp' = (done = Adapted)

(* FileTransferIntegration.Initialize: the file transfer service stays started
   when the adapter fails, and refuses to start once more *)
InitializeIntegration ==
  /\ ~integrationUp /\ ~serviceUp /\ ~adapterUp
  /\ serviceUp' = TRUE
  /\ InitializeAdapter
  /\ integrationUp' = adapterUp'
  /\ UNCHANGED <<default, handlers>>

(* FileTransferAdapter.Cleanup; the handlers stay with the dispatcher *)
CleanupAdapter == adapterUp' = FALSE /\ initialized' = initialized \ AdapterHandlers

CleanupIntegration ==
  /\ integrationUp
  /\ CleanupAdapter
  /\ integrationUp' = FALSE /\ serviceUp' = FALSE
  /\ UNCHANGED <<registered, default, handlers>>

(* FileTransferAdapter.RegisterHandler *)
RegisterWithAdapter(t) ==
  LET h == HandlerOf("caller", t) IN
  /\ handlers' = [handlers EXCEPT ![t] = h]
  /\ IF adapterUp
       THEN /\ registered' = IF t \in Taken THEN registered ELSE [registered EXCEPT ![t] = h]
            /\ initialized' = initialized \cup {h}
       ELSE UNCHANGED <<registered, initialized>>
  /\ UNCHANGED <<default, adapterUp, integrationUp, serviceUp>>

(* FileTransferAdapter.UnregisterHandler *)
UnregisterWithAdapter(t) ==
  /\ adapterUp /\ t \in Adapted
  /\ handlers' = [handlers EXCEPT ![t] = none]
  /\ initialized' = initialized \ {handlers[t]}
  /\ UNCHANGED <<registered, default, adapterUp, integrationUp, serviceUp>>

HandlersNext ==
  \/ InitializeIntegration \/ CleanupIntegration
  \/ \E t \in Type : \/ SetMessageHandler(t) \/ SetDefaultHandler(HandlerOf("caller", t))
                     \/ RegisterWithAdapter(t) \/ UnregisterWithAdapter(t)

HandlersSpec == HandlersInit /\ [][HandlersNext]_handlersVars

(* DispatchMessage: the handler of the type, or else the default one if it can
   handle the type; a handler of another type never can *)
Route(t) == IF registered[t] # none THEN registered[t]
            ELSE IF default # none /\ default.type = t THEN default ELSE none

-----------------------------------------------------------------------------
HandlersTypeOK ==
  /\ registered \in [Type -> Handler \cup {none}] /\ handlers \in [Type -> Handler \cup {none}]
  /\ default \in Handler \cup {none} /\ initialized \subseteq Handler
  /\ adapterUp \in BOOLEAN /\ integrationUp \in BOOLEAN /\ serviceUp \in BOOLEAN

(* When the integration says it is initialised, a message of every type of the
   adapter reaches a handler, whatever was registered before, and however far
   an Initialize that failed had come (FileTransferIntegration.Initialize,
   FileTransferAdapter.Initialize, DispatchMessage). *)
IntegratedIsRouted == integrationUp => \A t \in Adapted : Route(t) # none
=============================================================================
