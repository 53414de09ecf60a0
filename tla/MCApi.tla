--------------------------------- MODULE MCApi ---------------------------------
(***************************************************************************)
(* An instance of Api for TLC: four users whose sessions get ids of two,   *)
(* ten and eleven digits, two of them different in the tenth only; two are *)
(* registered, one of these an administrator, and a uid is not.            *)
(***************************************************************************)
EXTENDS Api, TLC

CONSTANTS short, ten, other, eleven, admin, known, guest

MCSessionId(u) ==
    CASE u = short -> <<4, 2>>
      [] u = ten -> <<1, 2, 3, 4, 5, 6, 7, 8, 9, 1>>
      [] u = other -> <<1, 2, 3, 4, 5, 6, 7, 8, 9, 2>>
      [] u = eleven -> <<1, 2, 3, 4, 5, 6, 7, 8, 9, 0, 1>>

MCRegistered == admin :> short @@ known :> ten
=============================================================================
