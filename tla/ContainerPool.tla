--------------------------- MODULE ContainerPool ---------------------------
(***************************************************************************)
(* Container implements Pool as long as nobody closes or injects: the      *)
(* cache is the slots, the rest of a ResolveIDs list is what is asked for. *)
(***************************************************************************)
EXTENDS Container

P == INSTANCE Pool WITH slots <- cache, asked <- batch, answer <- ret,
                        Nothing <- NoInst, Error <- ErrResult

\* To its callers the container is a pool (container.go:68, 126-133): each
\* resource is stored once and after its declared dependencies, whoever asks
\* gets the stored instance, and only an unsound resource gets an error.
ImplementsPool == P!Spec

=============================================================================
