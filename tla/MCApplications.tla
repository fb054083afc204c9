---------------------------- MODULE MCApplications ----------------------------
EXTENDS Applications, SequencesExt, TLC

\* An access list, its attachment, and DHCP snooping.
PoliciesMC      == <<"acl", "attach", "snoop">>
PolicyBatchMC   == "acl" :> 1 @@ "attach" :> 2 @@ "snoop" :> 2
PolicyDependsMC == "acl" :> {} @@ "attach" :> {"acl"} @@ "snoop" :> {}

\* DNS is enabled and gets two records, then HTTP is enabled on another host.
RecordsMC       == <<"dns", "www", "ftp", "http">>
RecordBatchMC   == "dns" :> 1 @@ "www" :> 2 @@ "ftp" :> 2 @@ "http" :> 3
RecordDependsMC == "dns" :> {} @@ "www" :> {"dns"} @@ "ftp" :> {"dns"} @@ "http" :> {}

\* One client resolves both names, to addresses of which one is a part of the
\* other, and fetches.
Order  == <<"state", "missing", "resolveftp", "resolvewww", "fetch">>
Kind   == "state" :> "direct" @@ "missing" :> "negative" @@ "resolveftp" :> "resolution"
          @@ "resolvewww" :> "resolution" @@ "fetch" :> "fetch"
Anchor == "state" :> "ftp" @@ "missing" :> "ftp" @@ "resolveftp" :> "ftp"
          @@ "resolvewww" :> "www" @@ "fetch" :> "http"
Owner  == [e \in Range(Order) |-> IF e = "fetch" THEN "H" ELSE "D"]
Asker  == [e \in Range(Order) |-> "pc"]
Short  == "10.0.0.1"
Long   == "10.0.0.10"
Parts  == Short :> {Short} @@ Long :> {Short, Long}
Rising  == [e \in Range(Order) |-> IF e = "resolvewww" THEN Long ELSE Short]
Alone  == [e \in Range(Order) |-> {}]

\* There and back, then to a third phone.
ThreeCalls == <<<<"a", "b">>, <<"b", "a">>, <<"a", "c">>>>
=============================================================================
