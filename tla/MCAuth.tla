------------------------------ MODULE MCAuth ------------------------------
(* Small instances of Auth for TLC. *)
EXTENDS Auth

Opt(name, value) == <<name, value>>
JWT(options) == [kind |-> "jwt", options |-> options]
ByHeader == <<"header", "X-API-Key">>
ByQuery == <<"query", "token">>
ByCookie == <<"cookie", "jwt">>
Key(lookup, scheme, skipper) ==
  [kind |-> "key", lookup |-> lookup, scheme |-> scheme, skipper |-> skipper]
Basic == [kind |-> "basic", skipper |-> FALSE]
PublicBasic == [kind |-> "basic", skipper |-> TRUE]
RBAC == [kind |-> "role", roles |-> {"admin"}]
ACL == [kind |-> "role", roles |-> {"admin", "user"}]

WithRole == Opt("success", "role")

(* Every way to give a JWT its keys: alone, after another key, before one, *)
(* with a method of its own, and the ones that leave it without a key.     *)
JWTs ==
  { JWT(<<Opt("secret", "s1")>>),
    JWT(<<Opt("publicKey", "k1"), Opt("secret", "s1"), WithRole>>),
    JWT(<<Opt("secret", "s1"), Opt("publicKey", "k1"), Opt("lookup", ByQuery)>>),
    JWT(<<Opt("secret", "s1"), Opt("pem", "k1"), WithRole>>),
    JWT(<<Opt("secret", "s1"), Opt("pem", None), Opt("scheme", "")>>),
    JWT(<<Opt("secret", "s1"), Opt("jks", "j"), Opt("lookup", ByCookie)>>),
    JWT(<<Opt("secret", "s1"), Opt("method", "HS512")>>),
    JWT(<<Opt("method", "none"), Opt("skipper", TRUE)>>),
    JWT(<<Opt("secret", "s1"), Opt("lookup", ByCookie), WithRole>>),
    JWT(<<Opt("secret", "s2"), Opt("secret", "s1"), Opt("lookup", ByQuery), Opt("skipper", TRUE), WithRole>>),
    JWT(<<Opt("secret", None)>>),
    JWT(<<Opt("secret", "s1"), Opt("lookup", <<"header">>)>>) }

Keys ==
  { Key(ByHeader, "", FALSE), Key(ByCookie, "", TRUE), Key(Authorization, "Bearer", FALSE),
    Key(ByQuery, "", FALSE), Key(<<"form", "key">>, "", FALSE) }

TokenInCookie == JWT(<<Opt("secret", "s1"), Opt("lookup", ByCookie), WithRole>>)
TokenInHeader == JWT(<<Opt("secret", "s1"), WithRole>>)

(* Each guard alone, and every kind before and after the ones that need    *)
(* what it has found.                                                      *)
SomeStacks ==
  {<<g>> : g \in JWTs \cup Keys \cup {Basic, RBAC}}
  \cup { <<TokenInCookie, RBAC>>, <<RBAC, TokenInCookie>>, <<Basic, TokenInCookie, ACL>>,
         <<TokenInCookie, Basic, RBAC>>, <<PublicBasic, TokenInHeader, ACL>>,
         <<Key(ByHeader, "", FALSE), ACL, RBAC>>, <<TokenInHeader, Key(Authorization, "Bearer", FALSE)>> }

AllPlaces == {Authorization, ByHeader, ByQuery, ByCookie}
Nothing == [p \in AllPlaces |-> Absent]
Credentials(kind, scheme) ==
  { [scheme |-> scheme, kind |-> kind, verdict |-> "valid", role |-> "user"],
    [scheme |-> scheme, kind |-> kind, verdict |-> "valid", role |-> "admin"],
    [scheme |-> scheme, kind |-> kind, verdict |-> "invalid", role |-> None],
    [scheme |-> scheme, kind |-> kind, verdict |-> "error", role |-> None] }
EmptyValue == [scheme |-> "", kind |-> "empty", verdict |-> "invalid"]

Carried ==
  {Nothing, [Nothing EXCEPT ![ByCookie] = EmptyValue], [Nothing EXCEPT ![Authorization] = Garbage],
   [Nothing EXCEPT ![Authorization] = [scheme |-> "Basic", kind |-> "garbage"]]}
  \cup {[Nothing EXCEPT ![Authorization] = c] : c \in Credentials("basic", "Basic") \cup Credentials("key", "Bearer")}
  \cup {[Nothing EXCEPT ![p] = c] : p \in {ByHeader, ByQuery, ByCookie}, c \in Credentials("key", "")}

(* A token where it belongs, with and without its scheme, where it does    *)
(* not belong, and next to other credentials.                              *)
Tokened ==
  LET T(scheme) == [scheme |-> scheme, kind |-> "token"]
      Valid(kind, scheme) == CHOOSE c \in Credentials(kind, scheme) : c.role = "user"
  IN  {[Nothing EXCEPT ![Authorization] = T("Bearer")], [Nothing EXCEPT ![Authorization] = T("")]}
      \cup {[Nothing EXCEPT ![p] = T("")] : p \in {ByQuery, ByCookie}}
      \cup {[Nothing EXCEPT ![ByCookie] = T("Bearer")]}
      \cup {[Nothing EXCEPT ![ByCookie] = T(""), ![Authorization] = Valid("basic", "Basic")]}
      \cup {[Nothing EXCEPT ![ByHeader] = Valid("key", ""), ![Authorization] = T("Bearer")]}

SomeRequests ==
  [public : {FALSE}, carried : Carried \cup Tokened] \cup [public : {TRUE}, carried : {Nothing} \cup Tokened]

Foreigner(alg, key, exp, iat, who) ==
  Token(alg, key, [exp |-> exp, nbf |-> None, iat |-> iat, role |-> who], "")
(* Tokens of another service: with the private key of k1, with s1 itself   *)
(* but another method, without any, with another secret.                   *)
OtherTokens ==
  { Foreigner("RS256", "k1", 3, None, "admin"), Foreigner("RS256", "k1", None, 2, None),
    Foreigner("HS512", "s1", None, None, "admin"), Foreigner("none", "s1", None, None, "admin"),
    Foreigner("HS256", "s2", None, None, "admin") }

SomeClaims ==
  [exp : {None, 0, 2, 3}, nbf : {None, 2}, iat : {None, 2}, role : {None, "user", "admin"}]

SomeIssuers ==
  [method : {"HS256", "RS256", "none"}, secret : {"s1", None}]
============================================================================
