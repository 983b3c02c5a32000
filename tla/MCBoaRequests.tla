---------------------------- MODULE MCBoaRequests ----------------------------
(* An instance of BoaRequests for TLC. *)
EXTENDS BoaRequests

\* A client with a kept connection, one with a file, a form, a page there is not, and
\* a CGI; one that begins with a line that is none, one whose header ends at an odd line
\* with a page behind it, one whose header is too long, and one whose answer is.
Requests == {<<"page", "keep", "cgi", "end">>, <<"file", "end">>, <<"post", "end", "body">>,
             <<"bad", "keep">>, <<"cgi", "end">>, <<"body">>, <<"page", "odd", "page", "end">>,
             <<"page", "long">>, <<"huge", "end">>}

\* One client with any of them, with a SIGTERM and a SIGHUP (one of the two, if the
\* connection is kept and a CGI follows).  Or, without signals, with CGIs that say nothing
\* and clients that stay, two: the first with a file, the second with a CGI; or, when the
\* first of these is served while the second has sent nothing, a third after it, which gets
\* the descriptors the first has left, whatever select still watches them for.
Quiet == sigterm = 0 /\ hups = 0 /\ \A c \in Conn : said[c] = 0
Scripted(c, s) == script[c] \in {<<>>, s}

Within ==
    /\ \A c \in Conn :
         /\ script[c] = <<"page", "keep", "cgi", "end">> => sigterm = 0 \/ hups = 0
         /\ script[c] = <<"cgi", "end">> => Quiet
    /\ 2 \in Conn /\ peer[2] # "new" =>
         /\ Quiet /\ peer[1] # "new" /\ \A c \in Conn : peer[c] # "gone"
         /\ Scripted(1, <<"file", "end">>) /\ Scripted(2, <<"cgi", "end">>)
    /\ 3 \in Conn /\ peer[3] # "new" =>
         /\ peer[1] = "closed" /\ peer[2] # "new" /\ sent[2] = 0
         /\ Scripted(3, <<"cgi", "end">>)

OneTwoOrThree == Init /\ [][Next /\ Within']_vars /\ Fairness
=============================================================================
