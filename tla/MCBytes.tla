------------------------------- MODULE MCBytes -------------------------------
(* The bytes behind a file system, one module at a time: the encrypted blocks   *)
(* of a workspace and the lazy layers of a ref.  `part' says which of the two a *)
(* behaviour is about, while the other rests.                                   *)
EXTENDS EncryptedStore

CONSTANTS Callers, Manifests, Eager, Alone   \* Layers

VARIABLES part, remote, twins, marks, view, call, queues, running, torn

Lazy == INSTANCE Hydration

hydration == <<remote, twins, marks, view, call, queues, running, torn>>

ASSUME BytesAssumption == Lazy!HydrationAssumption

\* A layer added at the end, and one that is replaced beside a layer that moves.
Appended == <<<<"A">>, <<"A", "B">>>>
Rebuilt == <<<<"A", "B">>, <<"B", "C">>>>

BytesInit ==
    /\ part \in {"blocks", "layers"}
    /\ Init /\ (part # "blocks" => \A id \in Ids : inner[id] = None)
    /\ Lazy!Init

BytesNext ==
    /\ UNCHANGED part
    /\ \/ part = "blocks" /\ Next /\ UNCHANGED hydration
       \/ part = "layers" /\ Lazy!Next /\ UNCHANGED vars

BytesSpec == BytesInit /\ [][BytesNext]_<<part, vars, hydration>>
FairBytesSpec == BytesSpec /\ Fairness /\ Lazy!Fairness

\* A layer that is marked hydrated has its bytes, unless a dehydrate is under way
\* or was cut off, and a slot of the mounted view never holds the bytes of
\* another layer.
LayersHeld == Lazy!TypeOK /\ Lazy!HydratedIsPresent /\ Lazy!ViewHoldsOwnLayers
ViewHoldsOwnLayers == Lazy!ViewHoldsOwnLayers
\* A flush ends once writers pause, and a queued transfer once the higher lanes do.
BytesSettle == FlushSettles /\ Lazy!LowLanesRun
==============================================================================
