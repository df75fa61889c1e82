------------------------------ MODULE MCPages ------------------------------
\* Pages with two requests in flight and two replicas.
EXTENDS Pages, TLC

PlacementKinds == {"set", "softdelete", "group", "delete_page"}
DomainKinds == {"create", "attach", "domain", "verify", "delete_page"}
CertificateKinds == {"attach", "delete_page", "tls"}
AllWorkloads == {PlacementKinds, DomainKinds, CertificateKinds}

PagesSymmetry == Permutations(Clients) \cup Permutations(Replicas) \cup Permutations(Pages)
                 \cup Permutations(Services) \cup Permutations(Domains)
=============================================================================
