------------------------------- MODULE Clients -------------------------------
(***************************************************************************)
(* The users that the SFU and the transcode daemons both speak of, by the  *)
(* UserSessionID of internal/core.                                         *)
(***************************************************************************)
CONSTANTS Users,
          NoUser     \* where no user is named yet

ASSUME ClientsAssumption == NoUser \notin Users
=============================================================================
