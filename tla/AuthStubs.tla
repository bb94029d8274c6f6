------------------------------ MODULE AuthStubs ------------------------------
(* The auth interface, ids 25000 to 25003: auth_makeauth makes the right it  *)
(* returns, auth_server_authenticate copies one.                             *)
EXTENDS MigMessage, TLC

auth_getids_Reply ==
  Layout(25100,
         <<Data("euids", 4), Data("auids", 4), Data("egids", 4), Data("agids", 4)>>,
         <<Count("euids"), Count("auids"), Count("egids"), Count("agids")>>)
auth_getids ==
  Stub("auth_getids", <<>>,
       Layout(25000, <<>>, <<>>), auth_getids_Reply,
       <<"euids", "auids", "egids", "agids">>)
auth_getids_Request == Shape(<<>>, <<>>)
Xauth_getids ==
  Routine("auth_getids", auth_getids_Request, <<>>, <<>>,
          Shape(<<Data("euids", 4), Data("auids", 4), Data("egids", 4),
            Data("agids", 4)>>,
            <<Count("euids"), Count("auids"), Count("egids"), Count("agids")>>),
          <<"euids", "auids", "egids", "agids">>)

auth_makeauth_Reply == Layout(25101, <<Right("newhandle", 17)>>, <<>>)
auth_makeauth ==
  Stub("auth_makeauth", <<"other_handles", "euids", "auids", "egids", "agids">>,
       Layout(25001, <<Rights("other_handles", 19), Data("euids", 4),
         Data("auids", 4), Data("egids", 4), Data("agids", 4)>>,
         <<Count("other_handles"), Count("euids"), Count("auids"), Count("egids"),
         Count("agids")>>), auth_makeauth_Reply, <<"newhandle">>)
auth_makeauth_Request ==
  Shape(<<Rights("other_handles", 17), Data("euids", 4), Data("auids", 4),
          Data("egids", 4), Data("agids", 4)>>,
        <<Count("other_handles"), Count("euids"), Count("auids"), Count("egids"),
          Count("agids")>>)
Xauth_makeauth ==
  Routine("auth_makeauth", auth_makeauth_Request,
          <<"other_handles", "euids", "auids", "egids", "agids">>,
          <<"agids", "egids", "auids", "euids", "other_handles">>,
          Shape(<<Right("newhandle", 20)>>, <<>>), <<"newhandle">>)

auth_user_authenticate_Reply == Layout(25102, <<Right("newport", 17)>>, <<>>)
auth_user_authenticate ==
  Stub("auth_user_authenticate", <<"rendezvous">>,
       Layout(25002, <<Right("rendezvous", 19)>>, <<>>),
       auth_user_authenticate_Reply, <<"newport">>)
auth_user_authenticate_Request == Shape(<<Right("rendezvous", 17)>>, <<>>)
Xauth_user_authenticate ==
  Routine("auth_user_authenticate", auth_user_authenticate_Request,
          <<"rendezvous">>, <<>>,
          Shape(<<Right("newport", 19)>>, <<>>), <<"newport">>)

auth_server_authenticate_Reply ==
  Layout(25103,
         <<Data("euids", 4), Data("auids", 4), Data("egids", 4), Data("agids", 4)>>,
         <<Count("euids"), Count("auids"), Count("egids"), Count("agids")>>)
auth_server_authenticate ==
  Stub("auth_server_authenticate", <<"rendezvous", "newport">>,
       Layout(25003, <<Right("rendezvous", 19), Right("newport", 19)>>, <<>>),
       auth_server_authenticate_Reply, <<"euids", "auids", "egids", "agids">>)
auth_server_authenticate_Request ==
  Shape(<<Right("rendezvous", 17), Right("newport", 17)>>, <<>>)
Xauth_server_authenticate ==
  Routine("auth_server_authenticate", auth_server_authenticate_Request,
          <<"rendezvous", "newport">>, <<>>,
          Shape(<<Data("euids", 4), Data("auids", 4), Data("egids", 4),
            Data("agids", 4)>>,
            <<Count("euids"), Count("auids"), Count("egids"), Count("agids")>>),
          <<"euids", "auids", "egids", "agids">>)

auth_server ==
  [name |-> "auth", table |->
    25000 :> Xauth_getids @@
    25001 :> Xauth_makeauth @@
    25002 :> Xauth_user_authenticate @@
    25003 :> Xauth_server_authenticate]

Callers ==
  {auth_getids, auth_makeauth, auth_user_authenticate,
   auth_server_authenticate}
==============================================================================
