------------------------------- MODULE Catalog -------------------------------
(***************************************************************************)
(* Posts, comments and reviews on top of the core resources.  A post has a  *)
(* user for author, a comment a post and an author, a review a product and  *)
(* an author.  Posts and comments are created under their parent's URL and  *)
(* never changed or deleted; reviews are only ever seeded.  Deleting a user *)
(* or a product leaves all of them in place.                                *)
(*                                                                         *)
(* A post's id is a random UUID: the n-th one drawn is the number n, so it  *)
(* never comes back, not even after a reset, which draws new ones.  Titles, *)
(* bodies and timestamps are left out, and so are the categories, a fixed   *)
(* table.                                                                   *)
(***************************************************************************)
EXTENDS CoreResources

CONSTANTS
  PostCount, CommentCount, ReviewCount,   \* rows seeded
  ReviewedProductCount,                   \* how many products they review
  MaxDrawn, MaxComment                    \* bounds: UUIDs drawn, comment ids

ASSUME CatalogAssumption ==
  /\ UserCount # 0
  /\ {PostCount, ReviewedProductCount} \subseteq Nat \ {0}
  /\ {CommentCount, ReviewCount, MaxDrawn, MaxComment} \subseteq Nat
  /\ PostCount <= MaxDrawn

VARIABLES
  posts,               \* the keyed store of posts
  comments, reviews,   \* auto-numbered stores
  drawn                \* how many UUIDs have been drawn

catalog == <<posts, comments, reviews, drawn>>
catalogVars == <<vars, catalog>>

Post == [userId : Nat]
Comment == [postId : Nat, userId : Nat]
Review == [productId : Nat, userId : Nat, rating : 1 .. 5]

-----------------------------------------------------------------------------
(* Seeding: authors, posts and products are taken in turn. *)

\* The row that comes i-th when the listing is repeated for ever.
InTurn(rows, i) == NthId(rows, (i - 1) % Cardinality(DOMAIN rows))

SeedPosts(userRows) ==
  [id \in drawn + 1 .. drawn + PostCount |-> [userId |-> InTurn(userRows, id - drawn)]]

SeedComments(postRows, userRows) ==
  ResetRows([i \in 1 .. CommentCount |->
    [postId |-> InTurn(postRows, i), userId |-> InTurn(userRows, i)]])

Reviewed(productRows) ==
  {id \in DOMAIN productRows :
     Cardinality({j \in DOMAIN productRows : j < id}) < ReviewedProductCount}

SeedReviews(productRows, userRows) ==
  ResetRows([i \in 1 .. ReviewCount |->
    [productId |-> InTurn([id \in Reviewed(productRows) |-> productRows[id]], i),
     userId |-> InTurn(userRows, i),
     rating |-> ((i - 1) % 5) + 1]])

SeededPosts == SeedPosts(SeededUsers.rows)

\* Mutant: comments are reseeded before the posts they answer.
CommentsReseededFirst == SeedComments(posts, SeededUsers.rows)

SeededComments == SeedComments(SeededPosts, SeededUsers.rows)

SeededReviews == SeedReviews(SeededProducts.rows, SeededUsers.rows)

-----------------------------------------------------------------------------
(* The nested listings: the parent is looked up first. *)

\* Mutant: any well-formed id will do.
UserIdWellFormed(userId) == userId \in 1 .. MaxUser

UserExists(userId) == userId \in DOMAIN users.rows

Missing == [status |-> "not found", ids |-> {}]
Found(ids) == [status |-> "ok", ids |-> ids]

ListPostsForUser(userId) ==
  IF ~ UserExists(userId) THEN Missing
  ELSE Found({id \in DOMAIN posts : posts[id].userId = userId})

ListCommentsForPost(postId) ==
  IF postId \notin DOMAIN posts THEN Missing
  ELSE Found({id \in DOMAIN comments.rows : comments.rows[id].postId = postId})

ListReviewsForProduct(productId) ==
  IF productId \notin DOMAIN products.rows THEN Missing
  ELSE Found({id \in DOMAIN reviews.rows : reviews.rows[id].productId = productId})

\* The orders of the customers linked to the user.
ListOrdersForUser(userId) ==
  IF ~ UserExists(userId) THEN Missing
  ELSE LET linked == {id \in DOMAIN customers.rows : customers.rows[id].userId = userId}
       IN  Found({id \in DOMAIN orders.rows : orders.rows[id].customerId \in linked})

\* The products of an order that are still there, each once.
ListProductsForOrder(orderId) ==
  IF orderId \notin DOMAIN orders.rows THEN Missing
  ELSE Found({item.productId : item \in ToSet(orders.rows[orderId].items)}
               \cap DOMAIN products.rows)

ListReviewsByRating(rating) ==
  Found({id \in DOMAIN reviews.rows : reviews.rows[id].rating = rating})

-----------------------------------------------------------------------------
(* POST /users/:id/posts and POST /posts/:id/comments. *)

CreatePostForUser(userId) ==
  /\ drawn < MaxDrawn
  /\ UserExists(userId)
  /\ drawn' = drawn + 1
  /\ posts' = Put(posts, drawn', [userId |-> userId])
  /\ Respond("created")
  /\ UNCHANGED <<users, customers, products, orders, comments, reviews>>

\* The author is looked up before the body is read.
CreatePostRefused(userId) ==
  /\ \/ ~ UserExists(userId) /\ Refuse("not found")
     \/ UserExists(userId) /\ Refuse("invalid")
  /\ UNCHANGED catalog

CreateCommentForPost(postId, userId) ==
  /\ comments.next <= MaxComment
  /\ postId \in DOMAIN posts
  /\ UserExists(userId)
  /\ comments' = Insert(comments, [postId |-> postId, userId |-> userId])
  /\ Respond("created")
  /\ UNCHANGED <<users, customers, products, orders, posts, reviews, drawn>>

\* The post is looked up first, then the body is read, then its author looked up.
CreateCommentRefused(postId) ==
  /\ \/ postId \notin DOMAIN posts /\ Refuse("not found")
     \/ postId \in DOMAIN posts /\ Refuse("invalid")
  /\ UNCHANGED catalog

-----------------------------------------------------------------------------
\* POST /admin/reset: posts after users, comments after posts, reviews after products.
ResetCatalog ==
  /\ drawn + PostCount <= MaxDrawn
  /\ ResetDataStores
  /\ posts' = SeededPosts
  /\ comments' = SeededComments
  /\ reviews' = SeededReviews
  /\ drawn' = drawn + PostCount

CatalogInit ==
  /\ Init
  /\ posts = [id \in 1 .. PostCount |-> [userId |-> InTurn(users.rows, id)]]
  /\ comments = SeedComments(posts, users.rows)
  /\ reviews = SeedReviews(products.rows, users.rows)
  /\ drawn = PostCount

CoreRequest ==
  /\ UserRequest \/ CustomerRequest \/ ProductRequest \/ OrderRequest
     \/ NotFound \/ MalformedBody
  /\ UNCHANGED catalog

PostRequest ==
  \E userId \in UserIds : CreatePostForUser(userId) \/ CreatePostRefused(userId)

CommentRequest ==
  \E postId \in 1 .. MaxDrawn :
    \/ \E userId \in UserIds : CreateCommentForPost(postId, userId)
    \/ CreateCommentRefused(postId)

CatalogNext == CoreRequest \/ PostRequest \/ CommentRequest \/ ResetCatalog

CatalogSpec == CatalogInit /\ [][CatalogNext]_catalogVars

-----------------------------------------------------------------------------
(* Properties. *)

\* Every store holds rows of its kind under ids handed out already, so neither a
\* create nor a drawn UUID overwrites a row.
CatalogTypeOK ==
  /\ TypeOK
  /\ drawn \in 0 .. MaxDrawn
  /\ posts \in [DOMAIN posts -> Post]
  /\ DOMAIN posts \subseteq 1 .. drawn
  /\ StoreOK(comments, Comment)
  /\ StoreOK(reviews, Review)

\* Every comment is in the thread of one post that exists: the threads of
\* /posts/:id/comments add up to /comments, through creates and resets alike,
\* although a reset gives every post a new id.
ThreadsAddUp ==
  /\ \A id \in DOMAIN posts : ListCommentsForPost(id).status = "ok"
  /\ UNION {ListCommentsForPost(id).ids : id \in DOMAIN posts} = DOMAIN comments.rows

\* Posts outlive their author, customers and orders the user they are linked to, but
\* nobody inherits them: short of a reset, a user who was not there a step ago has no
\* posts and no orders.
NobodyInherits ==
  [][ResetCatalog \/
     \A id \in DOMAIN users'.rows \ DOMAIN users.rows :
       ListPostsForUser(id)'.ids = {} /\ ListOrdersForUser(id)'.ids = {}]_catalogVars

\* After a reset, whatever was deleted before: every post is listed under a user,
\* and users have written equally many, give or take one; every review is listed
\* under a product that exists and under a rating; every order lists products; the core
\* is the seed again.
ResetRebuildsCatalog ==
  [][ResetCatalog =>
       /\ CoreIsSeed'
       /\ DOMAIN posts' = UNION {ListPostsForUser(id)'.ids : id \in DOMAIN users'.rows}
       /\ \A i, j \in DOMAIN users'.rows :
            Cardinality(ListPostsForUser(i)'.ids)
              <= Cardinality(ListPostsForUser(j)'.ids) + 1
       /\ DOMAIN reviews'.rows
            = UNION {ListReviewsForProduct(id)'.ids : id \in 1 .. ReviewedProductCount}
       /\ DOMAIN reviews'.rows = UNION {ListReviewsByRating(r)'.ids : r \in 1 .. 5}
       /\ \A id \in DOMAIN orders'.rows : ListProductsForOrder(id)'.ids # {}]_catalogVars

=============================================================================
