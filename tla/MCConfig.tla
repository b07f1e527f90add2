------------------------------ MODULE MCConfig ------------------------------
(* The vocabularies and the symmetry for checking Config. *)
EXTENDS Config

\* directives that share no state are checked in files of their own
MCVocabularies == {{"listen", "ssl_certificate"},
                   {"server_name", "listen_name", "index"},
                   {"access_log", "error_log", "fastcgi_param"},
                   LocationKinds}

Interchangeable == Permutations(Uris) \cup Permutations(Paths) \cup Permutations(Names)
=============================================================================
