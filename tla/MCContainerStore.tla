-------------------------- MODULE MCContainerStore --------------------------
(* Small instances of ContainerStore.                                       *)
EXTENDS ContainerStore
=============================================================================
