-------------------------- MODULE MCRosterDetails --------------------------
(* Instances of RosterDetails for TLC.                                     *)
EXTENDS RosterDetails, TLC

CONSTANTS v1, v2, bank, iban, pan, t1, t2, k1, k2, summer, winter, s1, s2, s3

Record(email) ==
    [id |-> 1, name |-> v1, email |-> email, phone |-> None, address |-> v1, pay |-> None,
     campaign |-> winter,
     averageViews |-> 1000000, cpm |-> 5, engagementRate |-> 1000, risk |-> "Low"]

Alike == Permutations({t1, t2})

Known == {Record(v1), [Record(None) EXCEPT !.pay = [k \in Key |-> v1], !.cpm = None,
                                !.campaign = None]}

Signing(status, campaign, phone, keys) ==
    [campaign |-> campaign, status |-> status, name |-> v1, email |-> v1,
     phone |-> phone, address |-> None, pay |-> keys]

AllKeys == [k \in Key |-> v1]
NewTerms == {Signing("PENDING", summer, v2, [k \in Key |-> v2])}

Stored(ref, term) == [f \in DOMAIN term \cup {"id"} |-> IF f = "id" THEN ref ELSE term[f]]
Contract1 == Stored(k1, Signing("SIGNED", summer, v1, AllKeys))

Stat(id, campaign, views, platforms, videos) ==
    [id |-> id, campaign |-> campaign, views |-> views, platforms |-> platforms,
     videos |-> videos]

\* Two posts, one of them on two platforms.
Videos == <<"IG" :> 30000 @@ "TT" :> 5000, "TT" :> 10000>>

Start ==
    {[contracts |-> <<>>, stats |-> <<>>],
     [contracts |-> <<Contract1>>,
      stats |-> <<Stat(s1, summer, 60000, {"IG"}, <<>>), Stat(s2, summer, 40001, {"TT"}, <<>>),
                  Stat(s3, None, None, {"IG"}, <<>>)>>],
     [contracts |-> <<>>,
      stats |-> <<Stat(s1, winter, 45000, {"IG"}, Videos), Stat(s2, summer, None, {"YT"}, <<>>)>>]}

Row(id, campaigns, views, cpm, engagement) ==
    [id |-> id, name |-> v1, platforms |-> {"IG"}, campaigns |-> campaigns,
     segment |-> "used", views |-> views, cpm |-> cpm, engagement |-> engagement,
     risk |-> None, lastCampaign |-> None]

OtherRows == <<Row(2, 3, 100000, None, 30), Row(3, 6, 10000000, 10, None)>>
=============================================================================
