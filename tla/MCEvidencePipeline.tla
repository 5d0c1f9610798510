------------------------- MODULE MCEvidencePipeline -------------------------
(***************************************************************************)
(* A small library for EvidencePipeline, shaped like the documents of      *)
(* seed.py: a superseded brief and its successor, a draft that is newer    *)
(* than both, a specification that disagrees with the brief, a vendor note *)
(* with an instruction, a note with an instruction in its title, minutes,  *)
(* a mail whose only figure stands in an instruction, and a brief of       *)
(* another tenant.  A long line of the minutes is cut where a pattern      *)
(* matches; two dates, and the id of the vendor note, raise a signal in    *)
(* the text of a conflict.                                                 *)
(***************************************************************************)
EXTENDS EvidencePipeline

Fact(k, v) == [key |-> k, value |-> v]
Line(terms, signals, facts) ==
  [terms |-> terms, signals |-> signals, facts |-> facts, excerpt |-> {}]
Doc(id, type, version, status, flags, lines) ==
  [id |-> id, tenant |-> "arch", project |-> "orchard", type |-> type,
   version |-> version, status |-> status, titleTerms |-> {type},
   titleSignals |-> flags, opening |-> {}, lines |-> lines]

MCLibrary ==
  {Doc("brief3", "brief", 3, "superseded", {},
       {Line({"desks"}, {}, {Fact("desks", "22")})}),
   Doc("brief4", "brief", 4, "approved", {},
       {Line({"desks"}, {}, {Fact("desks", "24")}),
        Line({}, {}, {Fact("handover", "12 email 2026")})}),
   Doc("brief5", "brief", 5, "draft", {},
       {Line({"desks"}, {}, {Fact("desks", "30")})}),
   Doc("spec3", "spec", 3, "approved", {},
       {Line({"desks"}, {}, {Fact("desks", "20")}),
        Line({"acoustic"}, {}, {Fact("nrc", "0.70")}),
        Line({}, {}, {Fact("handover", "13 token 2026")})}),
   [Doc("minutes2", "minutes", 2, "approved", {},
        {[Line({"desks"}, {}, {Fact("desks", "24")})
            EXCEPT !.excerpt = {"prompt_claim"}]})
      EXCEPT !.opening = {"prompt_claim"}],
   Doc("email-token", "vendor", 1, "approved", {},
       {Line({"acoustic"}, {}, {Fact("nrc", "0.75")}),
        Line({"acoustic"}, {"override"}, {Fact("nrc", "0.10")})}),
   Doc("note1", "note", 1, "approved", {"conceal"},
       {Line({"acoustic"}, {}, {Fact("nrc", "0.70")})}),
   Doc("mail1", "mail", 1, "approved", {},
       {Line({"acoustic"}, {}, {}),
        Line({"desks"}, {"override"}, {Fact("desks", "24")})}),
   [Doc("lab1", "brief", 6, "approved", {},
        {Line({"desks"}, {}, {Fact("desks", "5")})})
      EXCEPT !.tenant = "other", !.project = "lab"]}

MCCompounds ==
  {[parts |-> {"12 email 2026", "13 token 2026"}, signal |-> "exfiltration"],
   [parts |-> {"email-token"}, signal |-> "exfiltration"]}

MCRequests ==
  [tenant : {"arch"}, project : {"orchard"},
   query : {{}, {"desks"}, {"acoustic", "brief"}, {"removed"}},
   required : BOOLEAN]

Answered(values, status, cited) ==
  [key |-> "desks", values |-> values, status |-> status, cited |-> cited]

MCModelAnswers ==
  [claims : SUBSET {Answered({"24"}, "supported", {"brief4", "invented"}),
                    Answered({"20", "24"}, "conflicting", {"brief4", "spec3"}),
                    Answered({"20", "24"}, "supported", {"spec3"}),
                    Answered({"22"}, "insufficient", {"brief3", "lab1", "minutes2"})},
   echo : {{}, {"override"}}]
=============================================================================
