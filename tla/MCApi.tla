-------------------------------- MODULE MCApi -------------------------------
(***************************************************************************)
(* Two names that are one without the length of the prefix, and one with   *)
(* an empty key; verifiers of every family; one token per way to fail.     *)
(***************************************************************************)
EXTENDS Api

MCNames ==
  {[prefix |-> <<"app">>, key |-> <<"x", ":", "1">>],
   [prefix |-> <<"app", ":", "x">>, key |-> <<"1">>],
   [prefix |-> <<"app">>, key |-> <<>>]}

key(family, size) == [family |-> family, size |-> size, valid |-> TRUE, owner |-> "issuer"]

plain == [NoConfig EXCEPT !.keys = <<key("hmac", 64)>>]

MCConfigs ==
  {plain,
   [plain EXCEPT !.keys = <<key("hmac", 32)>>],
   [plain EXCEPT !.keys = <<key("hmac", 32)>>, !.algs = {"HS256"}, !.issuer = "iss", !.leeway = 1],
   [plain EXCEPT !.keys = <<key("rsa", 2048)>>, !.audience = "us", !.leeway = -1],
   [plain EXCEPT !.keys = <<key("rsa", 1024)>>],
   [plain EXCEPT !.keys = <<key("ecdsa", 256)>>],
   [plain EXCEPT !.keys = <<key("rsa", 2048)>>, !.algs = {"HS256"}],
   [plain EXCEPT !.keys = <<key("hmac", 64), key("rsa", 2048)>>],
   [plain EXCEPT !.issuer = ""]}

good == [alg |-> "HS256", signer |-> "issuer", exp |-> 2, nbf |-> Absent,
         iss |-> "iss", aud |-> {"us"}, sub |-> "ann"]

MCTokens ==
  {good, [good EXCEPT !.alg = "HS512"], [good EXCEPT !.alg = "RS256"], [good EXCEPT !.alg = "ES256"],
   [good EXCEPT !.alg = "none"],
   [good EXCEPT !.signer = "stranger"], [good EXCEPT !.exp = Absent], [good EXCEPT !.nbf = 1],
   [good EXCEPT !.iss = "other", !.exp = 1], [good EXCEPT !.aud = {}], [good EXCEPT !.sub = ""]}

MCTTLs == {-1, 0, 1}
MCObjects == {[type |-> <<"order">>, id |-> <<"1">>], [type |-> <<"order">>, id |-> <<>>],
              [type |-> <<>>, id |-> <<"1">>]}
=============================================================================
