---------------------------------- MODULE Api ----------------------------------
(***************************************************************************)
(* The HTTP API, internal/api: App.Router, the middleware that asks the    *)
(* authentication service, and the handlers, over the tables users and     *)
(* sessions.  Each request is a goroutine of net/http; a step of it is a   *)
(* statement, a call of the service, or a step of an upload.  The tables   *)
(* change between them, through other requests and through joins.          *)
(*                                                                         *)
(* A user is known to the service by a uid, to the tables by an id.        *)
(***************************************************************************)
EXTENDS Images

CONSTANTS Uids,        \* uids of tokens and of the bodies of POST /users
          Registered,  \* [uids with a row in users from the start -> Users]
          Admins,      \* ids of rows with is_admin
          NoUser,
          PerPage      \* the length of a page, 50 in StreamListHandler

ASSUME ApiAssumption ==
    /\ DOMAIN Registered \subseteq Uids
    /\ \A x \in DOMAIN Registered : Registered[x] \in Users
    /\ \A x, y \in DOMAIN Registered : Registered[x] = Registered[y] => x = y
    /\ Admins \subseteq {Registered[x] : x \in DOMAIN Registered}
    /\ NoUser \notin Users
    /\ PerPage \in Nat \ {0}

VARIABLES idOf,        \* the table users: the id of each uid
          request,     \* the requests
          authUp       \* external: the authentication service can be reached

apiVars == <<imageVars, idOf, request, authUp>>

Places == {"none",
           "dialing",     \* in grpc.Dial
           "verifying",   \* in Verify
           "finding",     \* before FindByUID
           "protected",   \* past the middleware, at any route behind it
           "public",      \* at a route without it
           "counted",     \* between the statements of GetAll
           "uploading",   \* in UploadHandle
           "answered"}

Results == {"ok", "unauthorized", "failed", "registered", "listed"}

ApiTypeOK ==
    /\ ImagesTypeOK
    /\ idOf \in [Uids -> Users \cup {NoUser}]
    /\ authUp \in BOOLEAN
    /\ \A i \in Uploads :
         LET r == request[i]
         IN  /\ r.at \in Places
             /\ r.at \in {"dialing", "verifying", "finding"} => r.uid \in Uids
             /\ r.at \in {"protected", "uploading"} => r.user \in Users
             /\ r.at = "uploading" => upload[i].user = r.user
             /\ r.at = "answered" => r.result \in Results

ApiInit ==
    /\ ImagesInit
    /\ idOf = [x \in Uids |-> IF x \in DOMAIN Registered THEN Registered[x] ELSE NoUser]
    /\ request = [i \in Uploads |-> [at |-> "none"]]
    /\ authUp \in BOOLEAN

Serving(i, place) == request[i].at = place

\* The goroutine of request i goes on at a place, with what it knows there.
Becomes(i, goroutine) == request' = [request EXCEPT ![i] = goroutine]

\* "ok" stands for 200, 302 and the 501 of a route that is not written,
\* "unauthorized" for 401, "failed" for 400, 404, 422 and 500.
Answers(i, result) == Becomes(i, [at |-> "answered", result |-> result])

Ids == {idOf[x] : x \in Uids} \ {NoUser}

-----------------------------------------------------------------------------
(* The middleware.                                                         *)

\* An administrator's cookie is looked at first; without one, or when Find
\* fails, the token counts.  The route behind the middleware is chosen after it.
\* Requests are numbered as they arrive.
Arrive(i) ==
    /\ Serving(i, "none")
    /\ \A j \in 1 .. (i - 1) : ~Serving(j, "none")
    /\ \/ Becomes(i, [at |-> "public"])
       \/ \E user \in Admins : Becomes(i, [at |-> "protected", user |-> user])
       \/ \E uid \in Uids : Becomes(i, [at |-> "dialing", uid |-> uid])
       \/ Answers(i, "unauthorized")
    /\ UNCHANGED <<imageVars, idOf, authUp>>

\* WithBlock and no deadline: Dial does not return before it is connected.
Dial(i) ==
    /\ Serving(i, "dialing")
    /\ authUp
    /\ Becomes(i, [at |-> "verifying", uid |-> request[i].uid])
    /\ UNCHANGED <<imageVars, idOf, authUp>>

VerifyWithoutTimeout(i) ==                                       \* a mutant
    /\ Serving(i, "verifying")
    /\ authUp
    /\ Becomes(i, [at |-> "finding", uid |-> request[i].uid])
    /\ UNCHANGED <<imageVars, idOf, authUp>>

\* Verify has five seconds: it answers, refuses the token, or fails.
Verify(i) ==
    /\ Serving(i, "verifying")
    /\ \/ authUp /\ Becomes(i, [at |-> "finding", uid |-> request[i].uid])
       \/ Answers(i, "unauthorized")
    /\ UNCHANGED <<imageVars, idOf, authUp>>

\* A uid without a row is an error like any other.
FindByUID(i) ==
    /\ Serving(i, "finding")
    /\ LET user == idOf[request[i].uid]
       IN  \/ user # NoUser /\ Becomes(i, [at |-> "protected", user |-> user])
           \/ Answers(i, "unauthorized")
    /\ UNCHANGED <<imageVars, idOf, authUp>>

-----------------------------------------------------------------------------
(* The handlers.                                                           *)

\* The routes /admin/login, /admin, /current_user and /dialogs, which read at
\* most, each of them in one statement.
Reply(i) ==
    /\ request[i].at \in {"public", "protected"}
    /\ \E result \in {"ok", "failed"} : Answers(i, result)
    /\ UNCHANGED <<imageVars, idOf, authUp>>

\* AuthAdminUser of POST /admin/login finds nobody with that password.
RefuseLogin(i) ==
    /\ Serving(i, "public")
    /\ Answers(i, "unauthorized")
    /\ UNCHANGED <<imageVars, idOf, authUp>>

OwnId(mine, returned) == mine                                    \* a mutant

\* u.ID = UserSessionID(id)
SavedId(mine, returned) == returned

\* POST /users.  Without an id in the body it is a new one, with one any.  One
\* statement: ON CONFLICT looks at the uid only, so an id that another uid has
\* is an error.
CreateUser(i) ==
    /\ Serving(i, "protected")
    /\ \E uid \in Uids, id \in Users :
         LET stored == IF idOf[uid] = NoUser THEN id ELSE idOf[uid]
         IN  IF idOf[uid] = NoUser /\ id \in Ids
             THEN Answers(i, "failed") /\ UNCHANGED idOf
             ELSE /\ idOf' = [idOf EXCEPT ![uid] = stored]
                  /\ Becomes(i, [at |-> "answered", result |-> "registered",
                                 uid |-> uid, id |-> SavedId(id, stored)])
    /\ UNCHANGED <<imageVars, authUp>>

\* PUT /stream and POST /profile/images until UploadHandle has the form.
BeginUpload(i) ==
    /\ Serving(i, "protected")
    /\ \E ext \in Exts, size \in 1 .. MaxSize :
         \/ StreamUpdateHandler(i, request[i].user, ext, size)
         \/ ProfileHandler(i, request[i].user, ext, size)
    /\ Becomes(i, [at |-> "uploading", user |-> request[i].user])
    /\ UNCHANGED <<idOf, authUp>>

GoOnUploading(i) ==
    /\ UploadStep(i)
    /\ UNCHANGED <<idOf, request, authUp>>

EndUpload(i) ==
    /\ Serving(i, "uploading")
    /\ \/ At(i, "done") /\ Answers(i, "ok")
       \/ At(i, "failed") /\ Answers(i, "failed")
    /\ UNCHANGED <<imageVars, idOf, authUp>>

\* GetAll(1, 50): how many rows there are, then the first page of them.
CountRows(i) ==
    /\ Serving(i, "public")
    /\ Becomes(i, [at |-> "counted", total |-> Cardinality(rows)])
    /\ UNCHANGED <<imageVars, idOf, authUp>>

FromNextPage(page) == page * PerPage                             \* a mutant

\* The third argument of the statement, OFFSET.
Offset(page) == (page - 1) * PerPage

PageLength(page) == Min({PerPage, Max({0, Cardinality(rows) - Offset(page)})})

Pages(total) == (total + PerPage - 1) \div PerPage

SelectPage(i) ==
    /\ Serving(i, "counted")
    /\ Becomes(i, [at |-> "answered", result |-> "listed",
                   pages |-> Pages(request[i].total), listed |-> PageLength(1)])
    /\ UNCHANGED <<imageVars, idOf, authUp>>

\* GetAll fails after it has counted.
ListFails(i) ==
    /\ Serving(i, "counted")
    /\ Answers(i, "failed")
    /\ UNCHANGED <<imageVars, idOf, authUp>>

-----------------------------------------------------------------------------

Serve(i) ==
    Dial(i) \/ Verify(i) \/ FindByUID(i) \/ Reply(i) \/ RefuseLogin(i) \/ CreateUser(i)
        \/ BeginUpload(i) \/ GoOnUploading(i) \/ EndUpload(i) \/ CountRows(i)
        \/ SelectPage(i) \/ ListFails(i)

\* A websocket of a user who is registered, on its server, and the router.
Join == \E u \in Ids : JoinSaves(u) /\ UNCHANGED <<idOf, request, authUp>>

AuthServiceChanges == authUp' = ~authUp /\ UNCHANGED <<imageVars, idOf, request>>

ApiNext ==
    \/ \E i \in Uploads : Arrive(i) \/ Serve(i)
    \/ Join
    \/ AuthServiceChanges

\* Fairness: net/http runs the goroutine of each request, and a statement ends.
ApiSpec == ApiInit /\ [][ApiNext]_apiVars /\ \A i \in Uploads : WF_apiVars(Serve(i))

-----------------------------------------------------------------------------
(* Properties                                                              *)

Answered(i, result) == Serving(i, "answered") /\ request[i].result = result

(* Whatever ids the clients make up and whichever registrations of a uid   *)
(* overlap, POST /users answers with the id that the row of the uid has    *)
(* from then on, so all answers for a uid have one id and those for two    *)
(* uids never have the same.                                               *)
OneIdPerUid ==
    /\ \A i \in Uploads : Answered(i, "registered") => request[i].id = idOf[request[i].uid]
    /\ \A x, y \in Uids : idOf[x] = idOf[y] /\ idOf[x] # NoUser => x = y

(* The number of pages comes from an older statement than the page, and    *)
(* rows appear in between; yet the page is never emptier than the number   *)
(* of pages promises: it has a row if there are pages, and is full if      *)
(* there are more than one.                                                *)
PagesAreNotOverpromised ==
    \A i \in Uploads : Answered(i, "listed") =>
        /\ request[i].pages > 0 => request[i].listed > 0
        /\ request[i].pages > 1 => request[i].listed = PerPage

(* Once the middleware has reached the authentication service a request is *)
(* answered, even when the service goes away; before, it waits for it.     *)
RequestsAreAnswered ==
    \A i \in Uploads :
        ~Serving(i, "none")
            ~> Serving(i, "answered") \/ (Serving(i, "dialing") /\ ~authUp)
=============================================================================
