------------------------------ MODULE MCFileStore ------------------------------
EXTENDS FileStore

(* Two bytes: at offset 3 they go to two blocks, behind a hole. *)
MCBytes == {<<1, 2>>}

=============================================================================
