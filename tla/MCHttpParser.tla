---------------------------- MODULE MCHttpParser ----------------------------
(* Inputs for the parsers: each kind of line that process() tells apart. *)
EXTENDS HttpParser

MCRequestLines == {<<"GET", "/", "HTTP/1.1">>, <<"GET", "/", "HTTP/1.0">>,
                   <<"GET", "/", "HTTP/2">>, <<"GET", "/">>, <<>>}

MCStatusLines == {<<"HTTP/1.1", "200", "OK">>, <<"HTTP/1.0", "200">>,
                  <<"HTTP/2", "200">>, <<"HTTP/1.1", "OK">>, <<"HTTP/1.1">>}

MCHeaderLines == {<<"Host:", "a">>, <<"Host:", "CR">>,
                  <<"Connection:", "keep-alive", "close">>, <<"connection:", "keep-alive">>,
                  <<"Content-Length:", "1">>, <<"content-length:", "1">>,
                  <<"Content-Length:", "2x", "CR">>, <<"Content-Length:", "-1">>,
                  <<"Content-Length:", "x">>, <<"Content-Length:">>,
                  <<"Content-Length:", "9999999999999999999">>,
                  <<":", "a">>, <<"a">>}

MCBodies == {<<>>, <<"b">>, <<"CR", "LF", "b">>}

=============================================================================
