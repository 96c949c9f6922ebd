------------------------------ MODULE MCWorker ------------------------------
EXTENDS Worker

Unlimited == -1
NoServers == <<>>
TwoServers == <<"f1", "f2">>
=============================================================================
